---- MODULE Spec2Model ----
(***************************************************************************)
(* Model of the retrieval core of TrialGPT (clinical_rag/retrieval.py and  *)
(* clinical_rag/query_parser.py): filter construction, weighted query      *)
(* vector, index search and the maximum-age post-filter (Spec), the query  *)
(* composer (ComposerSpec), the parser (ParseSpec), the result bundler of  *)
(* retrieve_with_exclusions (RetrieveSpec, and RetrieveFailSpec with       *)
(* failing service calls), the paginated scan of get_location_facets       *)
(* (FacetsSpec, FacetsLiveSpec) and its memoization (MemoSpec), the        *)
(* memoized handle constructors under concurrent queries (SingletonSpec),  *)
(* the verdict normalization of clinical_rag/judge.py (JudgeSpec) and the  *)
(* upsert loop of ingest/main.py (IngestSpec).                             *)
(*                                                                         *)
(* Python values are modelled as tagged records so that None, integers     *)
(* and other types stay distinguishable.  Strings are sequences of         *)
(* one-character strings, so that strip(), lower(), upper() and join() are *)
(* computed and not assumed.  Floating-point numbers are modelled as exact *)
(* rationals <<numerator, denominator>>.                                   *)
(***************************************************************************)
EXTENDS Integers, Sequences, FiniteSets, TLC

VARIABLES
    index,        \* the points of the collection (payload and vector), in storage order
    spec,         \* the Spec handed to _search_trials
    max_trials,   \* the max_trials argument
    pc,           \* position inside _search_trials
    qfilter,      \* value returned by build_filters
    vec,          \* value returned by _weighted_query_vector
    embed_calls,  \* texts lists handed to embedder.embed, in call order
    searches,     \* the client.search requests issued, in call order
    hits,         \* the hits the index returned for the last search
    result,       \* the list _search_trials returns
    refined,      \* TRUE when spec was obtained by setting one null field of an earlier Spec
    base_result,  \* nct_ids returned for the earlier Spec (refined runs)
    base_matches, \* number of points that matched the earlier Spec's filter
    components,   \* the ordered mapping build_query_components returned
    query_text,   \* the string build_query_text returned
    llm_content,  \* the message content the language model answered parse() with
    parsed,       \* the dict parse() returned
    grouped,      \* the mapping retrieve_with_exclusions builds, in insertion order
    fault,        \* the exception the embedder or the index raised during the call
    error,        \* the service exception that left retrieve_with_exclusions
    next_offset,  \* get_location_facets: the continuation cursor
    scrolls,      \* get_location_facets: the offsets of the scroll requests, in call order
    scanned,      \* get_location_facets: the ids of the points processed, in order
    countries,    \* get_location_facets: the set of countries
    states_by_country,  \* get_location_facets: country -> set of states
    cities_by_region,   \* get_location_facets: (country, state) -> set of cities
    facets,       \* the dict get_location_facets returned
    limit_per_scroll,   \* get_location_facets: the page size
    facets_cache,       \* the lru_cache(maxsize=1) around get_location_facets
    completed_scans,    \* the arguments whose scan has completed since the process started
    lru,          \* the lru_cache slots of _get_client and _get_embedder
    built,        \* how many times QdrantClient(...) and TextEmbedding(...) were constructed
    queries,      \* the concurrent queries: position, object just built, handles obtained
    judge_fn,     \* judge: the function called, judge_grouped or judge_from_text
    judge_content,  \* judge: the message content the language model answered with
    judge_parsed, \* judge: the list taken from the content
    judge_data,   \* judge: the list of verdicts built
    trial_source, \* ingest: the records the source yields, in order
    resume_from,  \* ingest: args.resume_from
    batch_size,   \* ingest: the batch size
    consumed,     \* ingest: how many records the for loop has taken from the source
    total_seen,   \* ingest: the counter total
    texts_buf,    \* ingest: the buffer texts
    ids_buf,      \* ingest: the buffer ids
    metadata_buf, \* ingest: the buffer metadata
    uploaded      \* ingest: the points handed to client.upload_collection, in order

\* the locals of _search_trials other than spec and pc
search_locals == <<max_trials, qfilter, vec, embed_calls, searches, hits,
                   result, refined, base_result, base_matches>>

composer_vars == <<components, query_text>>
parser_vars == <<llm_content, parsed>>
bundler_vars == <<grouped, fault, error>>
memo_vars == <<facets_cache, completed_scans>>
facet_vars == <<next_offset, scrolls, scanned, countries, states_by_country,
                cities_by_region, facets, limit_per_scroll, memo_vars>>

\* the state of the operations outside _search_trials
singleton_vars == <<lru, built, queries>>

judge_vars == <<judge_fn, judge_content, judge_parsed, judge_data>>
ingest_vars == <<trial_source, resume_from, batch_size, consumed, total_seen,
                 texts_buf, ids_buf, metadata_buf, uploaded>>

\* the state of the operations modelled after the retrieval core
more_vars == <<singleton_vars, judge_vars, ingest_vars>>

other_vars == <<composer_vars, parser_vars, bundler_vars, facet_vars, more_vars>>

vars == <<index, spec, pc, search_locals, other_vars>>

-----------------------------------------------------------------------------
(* Bounds of the model                                                     *)

MaxTrials == 3      \* max_trials ranges over 1..MaxTrials
Dim == 2            \* dimension of the embedding vectors
EmbRange == 7       \* embedding coordinates range over -(EmbRange \div 2) .. EmbRange \div 2
MaxPoints == 3      \* the scanned collections hold up to MaxPoints points
MaxLimit == 2       \* limit_per_scroll ranges over 1..MaxLimit
MaxVerdicts == 2    \* elements of the array the language model answers with
MaxRecords == 3     \* records the ingest source yields
MaxResume == 2      \* --resume-from ranges over 0..MaxResume
MaxBatch == 2       \* the batch size ranges over 1..MaxBatch
NumQueries == 2     \* queries running at the same time

-----------------------------------------------------------------------------
(* Python strings                                                          *)

LowerAlpha == <<"a","b","c","d","e","f","g","h","i","j","k","l","m",
                "n","o","p","q","r","s","t","u","v","w","x","y","z">>
UpperAlpha == <<"A","B","C","D","E","F","G","H","I","J","K","L","M",
                "N","O","P","Q","R","S","T","U","V","W","X","Y","Z">>
OtherChars == <<" ", ":", ",", "1", "2">>

IsIn(c, table) == \E i \in DOMAIN table : table[i] = c
PosIn(c, table) == CHOOSE i \in DOMAIN table : table[i] = c

\* the letters of each case, and the maps between the cases
Uppers == {UpperAlpha[i] : i \in DOMAIN UpperAlpha}
Lowers == {LowerAlpha[i] : i \in DOMAIN LowerAlpha}
ToUpper == [c \in Lowers |-> UpperAlpha[PosIn(c, LowerAlpha)]]
ToLower == [c \in Uppers |-> LowerAlpha[PosIn(c, UpperAlpha)]]

UpperChar(c) == IF c \in Lowers THEN ToUpper[c] ELSE c
LowerChar(c) == IF c \in Uppers THEN ToLower[c] ELSE c

\* str.upper() and str.lower()
Upper(s) == [i \in DOMAIN s |-> UpperChar(s[i])]
Lower(s) == [i \in DOMAIN s |-> LowerChar(s[i])]

\* str.strip(): drop leading and trailing white space
RECURSIVE LStrip(_)
LStrip(s) == IF s # <<>> /\ Head(s) = " " THEN LStrip(Tail(s)) ELSE s
RECURSIVE RStrip(_)
RStrip(s) == IF s # <<>> /\ s[Len(s)] = " " THEN RStrip(SubSeq(s, 1, Len(s) - 1)) ELSE s
Strip(s) == RStrip(LStrip(s))

\* sep.join(items)
RECURSIVE Join(_, _)
Join(sep, items) ==
    IF items = <<>> THEN <<>>
    ELSE IF Len(items) = 1 THEN items[1]
    ELSE items[1] \o sep \o Join(sep, Tail(items))

\* code point of a character (position in the character table of the model)
CharTable == LowerAlpha \o UpperAlpha \o OtherChars
CharCodes == [c \in {CharTable[i] : i \in DOMAIN CharTable} |-> PosIn(c, CharTable)]
CharCode(c) == IF c \in DOMAIN CharCodes THEN CharCodes[c] ELSE 0

\* the decimal rendering of a natural number, as str() and f-strings give it
DigitChars == <<"0","1","2","3","4","5","6","7","8","9">>
RECURSIVE IntStr(_)
IntStr(n) ==
    IF n < 10 THEN <<DigitChars[n + 1]>>
    ELSE IntStr(n \div 10) \o <<DigitChars[(n % 10) + 1]>>

\* An optional string: None or a str
None == [t |-> "none", s |-> <<>>]
Str(s) == [t |-> "str", s |-> s]

\* (x or ""): None and the empty string both give ""
OrEmpty(x) == IF x.t = "str" THEN x.s ELSE <<>>

-----------------------------------------------------------------------------
(* Exact rationals for the float arithmetic of the combiner                *)

Abs(n) == IF n < 0 THEN -n ELSE n
RECURSIVE GCD(_, _)
GCD(a, b) == IF b = 0 THEN a ELSE GCD(b, a % b)
Rat(n, d) ==
    LET g == GCD(Abs(n), Abs(d))
        sgn == IF d < 0 THEN -1 ELSE 1
    IN  <<sgn * (n \div g), sgn * (d \div g)>>
RatAdd(a, b) == Rat(a[1] * b[2] + b[1] * a[2], a[2] * b[2])
RatMul(a, b) == Rat(a[1] * b[1], a[2] * b[2])
RatDiv(a, b) == Rat(a[1] * b[2], a[2] * b[1])
RatLeq(a, b) == a[1] * b[2] <= b[1] * a[2]
RatZero == <<0, 1>>
RatOne == <<1, 1>>

-----------------------------------------------------------------------------
(* Python values of the Spec and of the payload                            *)

\* Spec.age: None, an int, or a str holding digits (such as "42")
AgeNone == [t |-> "none", v |-> 0]
AgeInt(n) == [t |-> "int", v |-> n]
AgeStr(n) == [t |-> "str", v |-> n]

\* payload min_age / max_age: None, an int n, or the float n + 0.5
NumNone == [t |-> "none", v |-> 0]
NumInt(n) == [t |-> "int", v |-> n]
NumHalf(n) == [t |-> "float", v |-> n]

\* Spec.location: None, a dict, or a value that is not a mapping (a list)
LocNone == [t |-> "none", city |-> None, state |-> None, country |-> None]
LocList == [t |-> "list", city |-> None, state |-> None, country |-> None]
LocDict(c, s, k) == [t |-> "dict", city |-> c, state |-> s, country |-> k]

\* Spec.conditions / medications / extra_terms: key absent, None, or a list of str
ListAbsent == [t |-> "absent", items |-> <<>>]
ListNone == [t |-> "none", items |-> <<>>]
List(items) == [t |-> "list", items |-> items]

sMALE == <<"M","A","L","E">>
sFEMALE == <<"F","E","M","A","L","E">>
sALL == <<"A","L","L">>
sMaleLower == <<"m","a","l","e">>
sOTHER == <<"O","T","H","E","R">>
sBostonRaw == <<" ","B","o","s"," ">>
sBoston == <<"b","o","s">>
sMaRaw == <<"M","A">>
sMa == <<"m","a">>
sUsaRaw == <<"U","S","A">>
sUsa == <<"u","s","a">>
sCa == <<"c","a">>
sBlank == <<" ", " ">>
sC1 == <<"c","1">>
sC2 == <<"c","2">>
sM1 == <<"m","1">>
sX1 == <<"x","1">>

AgeValues == {17, 18, 40, 65, 66}
SpecAges == {AgeNone, AgeStr(40)} \cup {AgeInt(n) : n \in AgeValues}
SpecSexes == {None, Str(sMALE), Str(sFEMALE), Str(sMaleLower), Str(sOTHER)}
SpecCities == {None, Str(sBostonRaw)}
SpecStates == {None, Str(sMaRaw)}
SpecCountries == {None, Str(sUsaRaw)}
\* None, a non-mapping, a dict of blank values, and the dicts over the values above
SpecLocations ==
    {LocNone, LocList, LocDict(Str(sBlank), Str(<<>>), None)} \cup
    {LocDict(c, s, k) : c \in SpecCities, s \in SpecStates, k \in SpecCountries}
SpecConditions == {ListAbsent, ListNone, List(<<sC1, sC2>>)}
SpecMedications == {List(<<>>), List(<<sM1>>)}
SpecExtraTerms == {ListAbsent, List(<<sX1>>)}

Specs ==
    [age : SpecAges, sex : SpecSexes, location : SpecLocations,
     conditions : SpecConditions, medications : SpecMedications,
     extra_terms : SpecExtraTerms]

EmptySpec ==
    [age |-> AgeNone, sex |-> None, location |-> LocNone,
     conditions |-> ListAbsent, medications |-> List(<<>>),
     extra_terms |-> ListAbsent]

-----------------------------------------------------------------------------
(* clinical_rag/query_parser.py                                            *)

sConditionsLabel == <<"c","o","n","d","i","t","i","o","n","s",":">>
sMedsLabel == <<"m","e","d","s",":">>
sContextLabel == <<"c","o","n","t","e","x","t",":">>
sCommaSpace == <<",", " ">>
sSpace == <<" ">>

\* QuerySpec(**spec): a list field that is absent takes its default []; a
\* list field that is None fails validation (list[str] is not Optional).
QuerySpecValid(s) ==
    /\ s.conditions.t # "none"
    /\ s.medications.t # "none"
    /\ s.extra_terms.t # "none"

\* A JSON object over the keys the parser's test uses; a key that is not in
\* the object carries the tag "absent".
AgeAbsent == [t |-> "absent", v |-> 0]
StrAbsent == [t |-> "absent", s |-> <<>>]
LocAbsent == [t |-> "absent", city |-> None, state |-> None, country |-> None]
ObjectKeys == {"age", "sex", "conditions", "medications", "comorbidities",
               "extra_terms", "location"}
EmptyObject ==
    [age |-> AgeAbsent, sex |-> StrAbsent, conditions |-> ListAbsent,
     medications |-> ListAbsent, comorbidities |-> ListAbsent,
     extra_terms |-> ListAbsent, location |-> LocAbsent]

\* the objects the language model may answer with
LlmObjects ==
    [age : {AgeAbsent, AgeNone, AgeInt(40)},
     sex : {StrAbsent, Str(sFEMALE)},
     conditions : {ListAbsent, ListNone, List(<<sC1>>)},
     medications : {List(<<>>), List(<<sM1, sC2>>)},
     comorbidities : {ListAbsent, List(<<sC2>>)},
     extra_terms : {ListAbsent, List(<<sX1>>)},
     location : {LocAbsent, LocDict(Str(sBoston), Str(sMa), Str(sUsa))}]

\* message.content: nothing or blank text, a JSON object, a JSON object
\* inside other text, or text with no JSON object in it
NoContent == [kind |-> "blank", data |-> EmptyObject]
Garbage == [kind |-> "garbage", data |-> EmptyObject]
LlmContents ==
    {NoContent, Garbage} \cup
    {[kind |-> k, data |-> d] : k \in {"json", "wrapped"}, d \in LlmObjects}

\* _coerce_json accepts everything but text without a JSON object
CoerceJsonOk(content) == content.kind # "garbage"
_coerce_json(content) == content.data

\* data[key] = [] when data.get(key) is None
ListOrEmpty(l) == IF l.t = "list" THEN l ELSE List(<<>>)

\* {**QuerySpec(**data).to_dict(), "age": None, "sex": None, "location": None}
ParseResult(data) ==
    [conditions |-> ListOrEmpty(data.conditions),
     medications |-> ListOrEmpty(data.medications),
     extra_terms |-> ListOrEmpty(data.extra_terms),
     comorbidities |-> ListAbsent,
     age |-> AgeNone, sex |-> None, location |-> LocNone]

Part(name, text) == [name |-> name, text |-> text]

\* build_query_components: the ordered mapping, as a sequence of (name, text)
build_query_components(s) ==
    (IF s.conditions.items # <<>>
        THEN <<Part("conditions", sConditionsLabel \o Join(sCommaSpace, s.conditions.items))>>
        ELSE <<>>)
    \o
    (IF s.medications.items # <<>>
        THEN <<Part("medications", sMedsLabel \o Join(sCommaSpace, s.medications.items))>>
        ELSE <<>>)
    \o
    (IF s.extra_terms.items # <<>>
        THEN <<Part("extra_terms", sContextLabel \o Join(sCommaSpace, s.extra_terms.items))>>
        ELSE <<>>)

\* a variant that joins one fragment per field, empty or not
build_query_text_all_fields(s) ==
    Join(sSpace,
         <<IF s.conditions.items # <<>>
              THEN sConditionsLabel \o Join(sCommaSpace, s.conditions.items) ELSE <<>>,
           IF s.medications.items # <<>>
              THEN sMedsLabel \o Join(sCommaSpace, s.medications.items) ELSE <<>>,
           IF s.extra_terms.items # <<>>
              THEN sContextLabel \o Join(sCommaSpace, s.extra_terms.items) ELSE <<>> >>)

\* build_query_text: " ".join(components.values())
build_query_text(s) ==
    LET parts == build_query_components(s)
    IN  Join(sSpace, [i \in DOMAIN parts |-> parts[i].text])

-----------------------------------------------------------------------------
(* clinical_rag/retrieval.py: build_filters                                *)

\* http_models.FieldCondition, with the three match kinds the code uses
MatchAny(key, vals) ==
    [key |-> key, kind |-> "match_any", any |-> vals, lte |-> 0, value |-> <<>>]
RangeLte(key, n) ==
    [key |-> key, kind |-> "range_lte", any |-> <<>>, lte |-> n, value |-> <<>>]
MatchValue(key, val) ==
    [key |-> key, kind |-> "match_value", any |-> <<>>, lte |-> 0, value |-> val]

\* Optional[http_models.Filter]
NoFilter == [t |-> "none", must |-> <<>>]
Filter(must) == [t |-> "filter", must |-> must]

\* a variant that forgets the trials open to ALL
SexConditionsSameOnly(s) ==
    LET sex == Upper(OrEmpty(s.sex))
    IN  IF sex \in {sMALE, sFEMALE}
        THEN <<MatchAny("gender", <<sex>>)>>
        ELSE <<>>

\* sex = (spec.get("sex") or "").upper(); a condition when it is MALE or FEMALE
SexConditions(s) ==
    LET sex == Upper(OrEmpty(s.sex))
    IN  IF sex \in {sMALE, sFEMALE}
        THEN <<MatchAny("gender", <<sex, sALL>>)>>
        ELSE <<>>

\* if isinstance(age, int): min_age range(lte=age)
AgeConditions(s) ==
    IF s.age.t = "int" THEN <<RangeLte("min_age", s.age.v)>> ELSE <<>>

\* a variant that forgets strip()
LocValueNoStrip(x) == Lower(OrEmpty(x))

\* (loc.get(k) or "").strip().lower() or None
LocValue(x) == Lower(Strip(OrEmpty(x)))

LocationConditions(s) ==
    IF s.location.t = "dict"
    THEN LET city == LocValue(s.location.city)
             state == LocValue(s.location.state)
             country == LocValue(s.location.country)
         IN  (IF city # <<>> THEN <<MatchValue("location_cities", city)>> ELSE <<>>)
             \o (IF state # <<>> THEN <<MatchValue("location_states", state)>> ELSE <<>>)
             \o (IF country # <<>> THEN <<MatchValue("location_countries", country)>> ELSE <<>>)
    ELSE <<>>

\* a variant that wraps an empty condition list into a Filter
FilterOfAlways(must) == Filter(must)

\* if not must: return None; return Filter(must=must)
FilterOf(must) == IF must = <<>> THEN NoFilter ELSE Filter(must)

build_filters(s) ==
    FilterOf(SexConditions(s) \o AgeConditions(s) \o LocationConditions(s))

-----------------------------------------------------------------------------
(* clinical_rag/retrieval.py: _postfilter_by_max_age                       *)

\* a variant that drops the hit whose max_age equals the patient's age
KeepsHitStrict(age, max_age) ==
    \/ max_age.t = "none"
    \/ (max_age.t = "int" /\ age < max_age.v)

\* max_age is None or (isinstance(max_age, int) and age <= max_age)
KeepsHit(age, max_age) ==
    \/ max_age.t = "none"
    \/ (max_age.t = "int" /\ age <= max_age.v)

RECURSIVE SelectSeq2(_, _)
SelectSeq2(seq, keep) ==
    IF seq = <<>> THEN <<>>
    ELSE (IF keep[1] THEN <<Head(seq)>> ELSE <<>>)
         \o SelectSeq2(Tail(seq), Tail(keep))

_postfilter_by_max_age(s, hs) ==
    IF s.age.t # "int" THEN hs
    ELSE SelectSeq2(hs, [i \in DOMAIN hs |-> KeepsHit(s.age.v, hs[i].payload.max_age)])

-----------------------------------------------------------------------------
(* Embedding service (fastembed TextEmbedding behind _get_embedder): one   *)
(* deterministic vector of dimension Dim per text.                         *)

\* a polynomial hash of the text, one base per coordinate
RECURSIVE TextHash(_, _, _)
TextHash(text, d, acc) ==
    IF text = <<>> THEN acc
    ELSE TextHash(Tail(text), d, (acc * (d + 2) + CharCode(Head(text))) % 97)

Embed(text) ==
    [d \in 1..Dim |-> (TextHash(text, d, d) % EmbRange) - (EmbRange \div 2)]

\* list(embedder.embed(texts)): one vector per text, in the order of texts
EmbedAll(texts) == [i \in DOMAIN texts |-> Embed(texts[i])]

\* a vector of floats, as exact rationals
AsFloats(v) == [d \in DOMAIN v |-> <<v[d], 1>>]

-----------------------------------------------------------------------------
(* clinical_rag/retrieval.py: _weighted_query_vector                       *)

\* a variant of the table in which medications carry no weight
ComponentWeightNoMedications(name) ==
    CASE name = "conditions" -> Rat(50, 100)
      [] name = "extra_terms" -> Rat(25, 100)
      [] OTHER -> RatZero

\* _COMPONENT_WEIGHTS.get(name, 0.0)
ComponentWeight(name) ==
    CASE name = "conditions" -> Rat(50, 100)
      [] name = "medications" -> Rat(25, 100)
      [] name = "extra_terms" -> Rat(25, 100)
      [] name = "sex" -> RatZero
      [] OTHER -> RatZero

\* if not text or weight <= 0: continue
Qualifies(part) ==
    /\ part.text # <<>>
    /\ ~RatLeq(ComponentWeight(part.name), RatZero)

RECURSIVE QualifyingItems(_)
QualifyingItems(parts) ==
    IF parts = <<>> THEN <<>>
    ELSE (IF Qualifies(Head(parts))
             THEN <<[name |-> Head(parts).name, text |-> Head(parts).text,
                     weight |-> ComponentWeight(Head(parts).name)]>>
             ELSE <<>>)
         \o QualifyingItems(Tail(parts))

RECURSIVE TotalWeight(_)
TotalWeight(items) ==
    IF items = <<>> THEN RatZero
    ELSE RatAdd(Head(items).weight, TotalWeight(Tail(items)))

\* a variant that uses the table weight without renormalizing
NormWeightRaw(weight, total) == weight

\* weight / total_weight
NormWeight(weight, total) == RatDiv(weight, total)

\* a variant that pairs the weights with the vectors in reverse order
NormWeightsReversed(items, total) ==
    [i \in DOMAIN items |-> NormWeight(items[Len(items) + 1 - i].weight, total)]

\* norm_weights = [weight / total_weight for _, _, weight in items]
NormWeights(items, total) ==
    [i \in DOMAIN items |-> NormWeight(items[i].weight, total)]

\* [norm_weight * v for v in vec]
Scaled(v, w) == [d \in DOMAIN v |-> RatMul(w, <<v[d], 1>>)]

\* [a + b for a, b in zip(weighted_vector, scaled)]
VecAdd(a, b) == [d \in 1..(IF Len(a) < Len(b) THEN Len(a) ELSE Len(b)) |-> RatAdd(a[d], b[d])]

\* the accumulation loop over zip(raw_vectors, norm_weights), first k pairs
RECURSIVE WeightedSum(_, _, _)
WeightedSum(raw, norm, k) ==
    IF k = 1 THEN Scaled(raw[1], norm[1])
    ELSE VecAdd(WeightedSum(raw, norm, k - 1), Scaled(raw[k], norm[k]))

\* a variant that embeds the joined string as it is, empty or not
FallbackTextAsIs(s) == build_query_text(s)

\* qtext = build_query_text(spec) or " "
FallbackText(s) ==
    IF build_query_text(s) = <<>> THEN sSpace ELSE build_query_text(s)

\* the vector returned and the embed() calls made, for a Spec QuerySpec accepts
_weighted_query_vector(s) ==
    LET items == QualifyingItems(build_query_components(s))
        total == TotalWeight(items)
        texts == [i \in DOMAIN items |-> items[i].text]
        raw == EmbedAll(texts)
        norm == NormWeights(items, total)
    IN  IF items = <<>> \/ RatLeq(total, RatZero)
        THEN [vec |-> AsFloats(EmbedAll(<<FallbackText(s)>>)[1]),
              calls |-> <<(<<FallbackText(s)>>)>>]
        ELSE [vec |-> WeightedSum(raw, norm, Len(items)),
              calls |-> <<texts>>]

-----------------------------------------------------------------------------
(* The vector index (Qdrant collection): points written by the ingest,     *)
(* filter matching and similarity search                                   *)

sN1 == <<"N","1">>
sN2 == <<"N","2">>
sN3 == <<"N","2","1">>
sN4 == <<"N","1","2">>
sN5 == <<"N","1","1">>

Payload(nct, gender, lo, hi, loc_cities, loc_states, loc_countries) ==
    [nct_id |-> nct, gender |-> gender, min_age |-> lo, max_age |-> hi,
     location_cities |-> loc_cities, location_states |-> loc_states,
     location_countries |-> loc_countries,
     inclusion_criteria |-> ListNone, exclusion_criteria |-> ListNone,
     locations |-> ListNone]

Point(payload, text) == [payload |-> payload, vector |-> Embed(text)]

Trial1 == Point(Payload(Str(sN1), Str(sALL), NumInt(18), NumInt(65),
                        <<sBoston>>, <<sMa>>, <<sUsa>>), sC1)
Trial2 == Point(Payload(Str(sN2), Str(sALL), NumInt(18), NumNone,
                        <<>>, <<>>, <<sUsa>>), sC2)
Trial3 == Point(Payload(Str(sN3), Str(sMALE), NumNone, NumNone,
                        <<>>, <<>>, <<>>), sM1)
Trial4 == Point(Payload(Str(sN4), Str(sFEMALE), NumInt(0), NumHalf(65),
                        <<sBoston>>, <<sMa>>, <<sUsa>>), sX1)
Trial5 == Point(Payload(Str(sN5), None, NumInt(66), NumNone,
                        <<>>, <<>>, <<sCa>>), sBoston)

Catalog == <<Trial1, Trial2, Trial3, Trial4, Trial5>>

\* the collections the model starts from
Indexes == {Catalog, <<Trial3, Trial2>>}

Elems(seq) == {seq[i] : i \in DOMAIN seq}

\* the values of a keyword payload field: a str, a list of str, or null
FieldStrs(payload, key) ==
    CASE key = "gender" -> IF payload.gender.t = "str" THEN {payload.gender.s} ELSE {}
      [] key = "location_cities" -> Elems(payload.location_cities)
      [] key = "location_states" -> Elems(payload.location_states)
      [] key = "location_countries" -> Elems(payload.location_countries)
      [] OTHER -> {}

\* the value of a numeric payload field
FieldNum(payload, key) ==
    CASE key = "min_age" -> payload.min_age
      [] key = "max_age" -> payload.max_age
      [] OTHER -> NumNone

\* a range condition matches a stored number within the range; a null or
\* missing value matches no range
RangeLteMatches(num, bound) ==
    \/ (num.t = "int" /\ num.v <= bound)
    \/ (num.t = "float" /\ num.v < bound)

CondMatches(c, payload) ==
    CASE c.kind = "match_any" -> FieldStrs(payload, c.key) \cap Elems(c.any) # {}
      [] c.kind = "match_value" -> c.value \in FieldStrs(payload, c.key)
      [] c.kind = "range_lte" -> RangeLteMatches(FieldNum(payload, c.key), c.lte)
      [] OTHER -> FALSE

\* a variant that takes the conditions as alternatives
FilterMatchesAny(f, payload) ==
    \E i \in DOMAIN f.must : CondMatches(f.must[i], payload)

\* Filter(must=[...]) is the conjunction of its conditions; query_filter=None matches all
FilterMatches(f, payload) ==
    \A i \in DOMAIN f.must : CondMatches(f.must[i], payload)

\* The collection uses cosine distance.  Scores are compared through
\* sign(q.v) * (q.v)^2 / |v|^2, which orders the points of one search exactly
\* as the cosine q.v / (|q| |v|) does; a zero vector scores 0.
RECURSIVE Dot(_, _, _)
Dot(q, v, d) ==
    IF d = 0 THEN RatZero ELSE RatAdd(RatMul(q[d], <<v[d], 1>>), Dot(q, v, d - 1))
RECURSIVE NormSq(_, _)
NormSq(v, d) == IF d = 0 THEN 0 ELSE v[d] * v[d] + NormSq(v, d - 1)
Score(q, point) ==
    LET dot == Dot(q, point.vector, Len(point.vector))
        n == NormSq(point.vector, Len(point.vector))
    IN  IF n = 0 THEN RatZero
        ELSE RatMul(RatMul(dot, <<Abs(dot[1]), dot[2]>>), <<1, n>>)

\* insert a point into a list ranked by descending score (ties keep storage order)
RECURSIVE InsertRanked(_, _, _)
InsertRanked(q, point, ranked) ==
    IF ranked = <<>> THEN <<point>>
    ELSE IF RatLeq(Score(q, point), Score(q, Head(ranked)))
         THEN <<Head(ranked)>> \o InsertRanked(q, point, Tail(ranked))
         ELSE <<point>> \o ranked

RECURSIVE Ranked(_, _)
Ranked(q, points) ==
    IF points = <<>> THEN <<>>
    ELSE InsertRanked(q, points[Len(points)],
                      Ranked(q, SubSeq(points, 1, Len(points) - 1)))

Matching(points, f) ==
    SelectSeq2(points, [i \in DOMAIN points |-> FilterMatches(f, points[i].payload)])

Take(seq, n) == SubSeq(seq, 1, IF Len(seq) < n THEN Len(seq) ELSE n)

\* a variant in which the index ranks every point and ignores the filter
SearchUnfiltered(points, q, f, limit) == Take(Ranked(q, points), limit)

\* client.search(query_vector, query_filter, limit): the limit best matching points
Search(points, q, f, limit) == Take(Ranked(q, Matching(points, f)), limit)

-----------------------------------------------------------------------------
(* clinical_rag/retrieval.py: _search_trials, step by step                 *)

NoVec == <<>>

\* the scroll cursor: None, or the id of the point the next page starts at
OffsetNone == [t |-> "none", id |-> 0]
OffsetId(i) == [t |-> "id", id |-> i]

\* get_location_facets has not returned
NoFacets == [countries |-> <<>>, states_by_country |-> <<>>, cities_by_region |-> <<>>]

\* no exception
NoError == "none"

\* resp.choices[0].message.content is None or empty
NoAnswer == [t |-> "none", prose |-> FALSE, fenced |-> FALSE,
             body |-> [t |-> "invalid", items |-> <<>>]]

\* the two memoized constructors, and the objects they build: the n-th
\* object a constructor builds is n, and 0 stands for no object
HandleKinds == {"client", "embedder"}
NoHandle == 0
QueryAtRest ==
    [pc |-> "idle", kind |-> "client", made |-> NoHandle,
     client |-> NoHandle, embedder |-> NoHandle]

\* the one slot of an lru_cache(maxsize=1): empty, or the arguments and the value
NoEntry == [t |-> "none", key |-> 0, value |-> NoFacets]
Entry(key, value) == [t |-> "entry", key |-> key, value |-> value]

\* no call is in progress
Idle ==
    /\ spec = EmptySpec
    /\ max_trials = 1
    /\ pc = "idle"
    /\ qfilter = NoFilter
    /\ vec = NoVec
    /\ embed_calls = <<>>
    /\ searches = <<>>
    /\ hits = <<>>
    /\ result = <<>>
    /\ refined = FALSE
    /\ base_result = {}
    /\ base_matches = 0
    /\ components = <<>>
    /\ query_text = <<>>
    /\ llm_content = NoContent
    /\ parsed = EmptyObject
    /\ grouped = <<>>
    /\ fault = NoError
    /\ error = NoError
    /\ next_offset = OffsetNone
    /\ scrolls = <<>>
    /\ scanned = <<>>
    /\ countries = {}
    /\ states_by_country = <<>>
    /\ cities_by_region = <<>>
    /\ facets = NoFacets
    /\ limit_per_scroll = 1
    /\ facets_cache = NoEntry
    /\ completed_scans = {}
    /\ lru = [k \in HandleKinds |-> NoHandle]
    /\ built = [k \in HandleKinds |-> 0]
    /\ queries = [q \in 1..NumQueries |-> QueryAtRest]
    /\ judge_fn = "judge_grouped"
    /\ judge_content = NoAnswer
    /\ judge_parsed = <<>>
    /\ judge_data = <<>>
    /\ trial_source = <<>>
    /\ resume_from = 0
    /\ batch_size = 1
    /\ consumed = 0
    /\ total_seen = 0
    /\ texts_buf = <<>>
    /\ ids_buf = <<>>
    /\ metadata_buf = <<>>
    /\ uploaded = <<>>

Init ==
    /\ index \in Indexes
    /\ Idle

\* a caller enters _search_trials(spec, max_trials=m)
Call ==
    /\ pc = "idle"
    /\ \E s \in Specs, m \in 1..MaxTrials :
          /\ spec' = s
          /\ max_trials' = m
    /\ pc' = "build_filters"
    /\ UNCHANGED <<index, qfilter, vec, embed_calls, searches, hits, result,
                   refined, base_result, base_matches>>
    /\ UNCHANGED other_vars

\* qfilter = build_filters(spec)
BuildFilters ==
    /\ pc = "build_filters"
    /\ qfilter' = build_filters(spec)
    /\ pc' = "query_vector"
    /\ UNCHANGED <<index, spec, max_trials, vec, embed_calls, searches, hits,
                   result, refined, base_result, base_matches>>
    /\ UNCHANGED other_vars

\* vec = _weighted_query_vector(spec); QuerySpec(**spec) raises on a None list
WeightedQueryVector ==
    /\ pc = "query_vector"
    /\ IF QuerySpecValid(spec)
       THEN /\ vec' = _weighted_query_vector(spec).vec
            /\ embed_calls' = embed_calls \o _weighted_query_vector(spec).calls
            /\ pc' = "search"
       ELSE /\ pc' = "raised"
            /\ UNCHANGED <<vec, embed_calls>>
    /\ UNCHANGED <<index, spec, max_trials, qfilter, searches, hits, result,
                   refined, base_result, base_matches>>
    /\ UNCHANGED other_vars

\* a variant that over-fetches to make up for the post-filter
IndexSearchOverFetch ==
    /\ pc = "search"
    /\ searches' = Append(searches, [query_filter |-> qfilter, limit |-> 2 * max_trials])
    /\ hits' = Search(index, vec, qfilter, 2 * max_trials)
    /\ pc' = "postfilter"
    /\ UNCHANGED <<index, spec, max_trials, qfilter, vec, embed_calls, result,
                   refined, base_result, base_matches>>
    /\ UNCHANGED other_vars

\* hits = client.search(query_vector=vec, query_filter=qfilter, limit=max_trials)
IndexSearch ==
    /\ pc = "search"
    /\ searches' = Append(searches, [query_filter |-> qfilter, limit |-> max_trials])
    /\ hits' = Search(index, vec, qfilter, max_trials)
    /\ pc' = "postfilter"
    /\ UNCHANGED <<index, spec, max_trials, qfilter, vec, embed_calls, result,
                   refined, base_result, base_matches>>
    /\ UNCHANGED other_vars

\* return _postfilter_by_max_age(spec, hits)[:max_trials]
PostFilter ==
    /\ pc = "postfilter"
    /\ result' = Take(_postfilter_by_max_age(spec, hits), max_trials)
    /\ pc' = "done"
    /\ UNCHANGED <<index, spec, max_trials, qfilter, vec, embed_calls, searches,
                   hits, refined, base_result, base_matches>>
    /\ UNCHANGED other_vars

\* the call is over (returned or raised); the per-call state is discarded
Return ==
    /\ pc \in {"done", "raised"}
    /\ pc' = "idle"
    /\ spec' = EmptySpec
    /\ max_trials' = 1
    /\ qfilter' = NoFilter
    /\ vec' = NoVec
    /\ embed_calls' = <<>>
    /\ searches' = <<>>
    /\ hits' = <<>>
    /\ result' = <<>>
    /\ refined' = FALSE
    /\ base_result' = {}
    /\ base_matches' = 0
    /\ UNCHANGED index
    /\ UNCHANGED other_vars

NctIds(hs) == {hs[i].payload.nct_id : i \in DOMAIN hs}

\* the Specs obtained from s by setting one null or absent field to a non-null value
Refinements(s) ==
    (IF s.age.t = "none"
        THEN {[s EXCEPT !.age = a] : a \in SpecAges \ {AgeNone}} ELSE {})
    \cup
    (IF s.sex.t = "none"
        THEN {[s EXCEPT !.sex = x] : x \in SpecSexes \ {None}} ELSE {})
    \cup
    (IF s.location.t = "none"
        THEN {[s EXCEPT !.location = l] : l \in SpecLocations \ {LocNone}} ELSE {})
    \cup
    (IF s.location.t = "dict" /\ s.location.city.t = "none"
        THEN {[s EXCEPT !.location.city = c] : c \in SpecCities \ {None}} ELSE {})
    \cup
    (IF s.location.t = "dict" /\ s.location.state.t = "none"
        THEN {[s EXCEPT !.location.state = c] : c \in SpecStates \ {None}} ELSE {})
    \cup
    (IF s.location.t = "dict" /\ s.location.country.t = "none"
        THEN {[s EXCEPT !.location.country = c] : c \in SpecCountries \ {None}} ELSE {})
    \cup
    (IF s.conditions.t # "list"
        THEN {[s EXCEPT !.conditions = l] : l \in {x \in SpecConditions : x.t = "list"}}
        ELSE {})
    \cup
    (IF s.medications.t # "list"
        THEN {[s EXCEPT !.medications = l] : l \in {x \in SpecMedications : x.t = "list"}}
        ELSE {})
    \cup
    (IF s.extra_terms.t # "list"
        THEN {[s EXCEPT !.extra_terms = l] : l \in {x \in SpecExtraTerms : x.t = "list"}}
        ELSE {})

\* the caller repeats a finished search that was not cut short by max_trials,
\* with one more field of the Spec set and the same max_trials
Refine ==
    /\ pc = "done"
    /\ ~refined
    /\ Len(Matching(index, qfilter)) < max_trials
    /\ \E r \in Refinements(spec) : spec' = r
    /\ refined' = TRUE
    /\ base_result' = NctIds(result)
    /\ base_matches' = Len(Matching(index, qfilter))
    /\ pc' = "build_filters"
    /\ qfilter' = NoFilter
    /\ vec' = NoVec
    /\ embed_calls' = <<>>
    /\ searches' = <<>>
    /\ hits' = <<>>
    /\ result' = <<>>
    /\ UNCHANGED <<index, max_trials>>
    /\ UNCHANGED other_vars

Next ==
    \/ Call
    \/ BuildFilters
    \/ WeightedQueryVector
    \/ IndexSearch
    \/ PostFilter
    \/ Return
    \/ Refine

Spec == Init /\ [][Next]_vars

-----------------------------------------------------------------------------
(* clinical_rag/query_parser.py: build_query_text called on its own        *)

\* the Specs handed to the Query Composer; they carry the fields of the
\* parser's test Spec, comorbidities included
ComposerSpecs ==
    [age : {AgeNone, AgeInt(40)},
     sex : {None, Str(sFEMALE)},
     location : {LocNone, LocDict(Str(sBoston), Str(sMa), Str(sUsa))},
     conditions : SpecConditions,
     medications : SpecMedications,
     comorbidities : {ListAbsent, List(<<sC1>>)},
     extra_terms : SpecExtraTerms]

\* q = build_query_text(spec); QuerySpec(**spec) raises on a None list
BuildQueryText ==
    /\ pc = "idle"
    /\ \E s \in ComposerSpecs :
          /\ spec' = s
          /\ IF QuerySpecValid(s)
             THEN /\ components' = build_query_components(s)
                  /\ query_text' = build_query_text(s)
                  /\ pc' = "composed"
             ELSE /\ pc' = "raised"
                  /\ UNCHANGED <<components, query_text>>
    /\ UNCHANGED <<index, search_locals, parser_vars, bundler_vars, facet_vars,
                   more_vars>>

\* the caller is done with the string
DropQueryText ==
    /\ pc \in {"composed", "raised"}
    /\ pc' = "idle"
    /\ spec' = EmptySpec
    /\ components' = <<>>
    /\ query_text' = <<>>
    /\ UNCHANGED <<index, search_locals, parser_vars, bundler_vars, facet_vars,
                   more_vars>>

ComposerNext ==
    \/ BuildQueryText
    \/ DropQueryText

ComposerSpec == Init /\ [][ComposerNext]_vars

-----------------------------------------------------------------------------
(* clinical_rag/query_parser.py: parse                                     *)

\* spec = parse(text): the model's answer is coerced to an object, validated
\* by QuerySpec and returned with age, sex and location set to None
Parse ==
    /\ pc = "idle"
    /\ \E c \in LlmContents :
          /\ llm_content' = c
          /\ IF CoerceJsonOk(c)
             THEN /\ parsed' = ParseResult(_coerce_json(c))
                  /\ pc' = "parsed"
             ELSE /\ pc' = "raised"
                  /\ UNCHANGED parsed
    /\ UNCHANGED <<index, spec, search_locals, composer_vars, bundler_vars, facet_vars,
                   more_vars>>

\* the caller is done with the parsed Spec
DropParsed ==
    /\ pc \in {"parsed", "raised"}
    /\ pc' = "idle"
    /\ llm_content' = NoContent
    /\ parsed' = EmptyObject
    /\ UNCHANGED <<index, spec, search_locals, composer_vars, bundler_vars, facet_vars,
                   more_vars>>

ParseNext ==
    \/ Parse
    \/ DropParsed

ParseSpec == Init /\ [][ParseNext]_vars

-----------------------------------------------------------------------------
(* clinical_rag/retrieval.py: retrieve_with_exclusions                     *)

sInclusionInfix == <<":","e","l","i","g","i","b","i","l","i","t","y","_","i","n","c","l","u","s","i","o","n",":">>
sExclusionInfix == <<":","e","l","i","g","i","b","i","l","i","t","y","_","e","x","c","l","u","s","i","o","n",":">>
sMetadataSuffix == <<":","m","e","t","a","d","a","t","a">>

\* a payload value that Python takes as true: a non-empty str
Truthy(x) == x.t = "str" /\ x.s # <<>>

\* p.get(<criteria>) or []
CriteriaOf(l) == IF l.t = "list" THEN l.items ELSE <<>>

\* the trial-level fields every evidence item and the bundle's info carry
Common(p) ==
    [nct_id |-> p.nct_id.s, gender |-> p.gender, min_age |-> p.min_age,
     max_age |-> p.max_age, locations |-> CriteriaOf(p.locations),
     location_cities |-> p.location_cities, location_states |-> p.location_states,
     location_countries |-> p.location_countries]

\* _PayloadWrapper({**common, "chunk_id": ..., "text": ...})
Evidence(common, chunk_id, text) ==
    [payload |-> [info |-> common, chunk_id |-> chunk_id, text |-> text]]

\* a variant that leaves the list's name out of the id
ChunkIdWithoutList(nct, infix, i) == nct \o <<":">> \o IntStr(i)

\* f"{nct}:eligibility_inclusion:{i}" and f"{nct}:eligibility_exclusion:{i}"
ChunkId(nct, infix, i) == nct \o infix \o IntStr(i)

\* a variant that numbers the kept entries consecutively
RECURSIVE WrappedRenumbered(_, _, _, _)
WrappedRenumbered(common, infix, entries, k) ==
    IF k = 0 THEN <<>>
    ELSE LET before == WrappedRenumbered(common, infix, entries, k - 1)
         IN  IF Truthy(entries[k])
             THEN Append(before, Evidence(common, ChunkId(common.nct_id, infix, Len(before)),
                                          entries[k]))
             ELSE before

\* [wrapper(i, t) for i, t in enumerate(entries) if t], over the first k entries
RECURSIVE Wrapped(_, _, _, _)
Wrapped(common, infix, entries, k) ==
    IF k = 0 THEN <<>>
    ELSE LET before == Wrapped(common, infix, entries, k - 1)
         IN  IF Truthy(entries[k])
             THEN Append(before, Evidence(common, ChunkId(common.nct_id, infix, k - 1),
                                          entries[k]))
             ELSE before

\* a variant that puts the metadata item in front of every inclusion list
InclWithPlaceholderAlways(common, incl_wrapped, excl_wrapped) ==
    <<Evidence(common, common.nct_id \o sMetadataSuffix, None)>> \o incl_wrapped

\* the metadata item stands in when a trial has no evidence item at all
InclOrPlaceholder(common, incl_wrapped, excl_wrapped) ==
    IF incl_wrapped = <<>> /\ excl_wrapped = <<>>
    THEN <<Evidence(common, common.nct_id \o sMetadataSuffix, None)>>
    ELSE incl_wrapped

\* the value stored under grouped[nct] for one hit
Bundle(p) ==
    LET common == Common(p)
        incl == CriteriaOf(p.inclusion_criteria)
        excl == CriteriaOf(p.exclusion_criteria)
        incl_wrapped == Wrapped(common, sInclusionInfix, incl, Len(incl))
        excl_wrapped == Wrapped(common, sExclusionInfix, excl, Len(excl))
    IN  [nct |-> common.nct_id, info |-> common,
         incl |-> InclOrPlaceholder(common, incl_wrapped, excl_wrapped),
         excl |-> excl_wrapped]

\* grouped[nct] = bundle: a new key goes last, a known key keeps its place
Put(g, bundle) ==
    IF \E j \in DOMAIN g : g[j].nct = bundle.nct
    THEN [j \in DOMAIN g |-> IF g[j].nct = bundle.nct THEN bundle ELSE g[j]]
    ELSE Append(g, bundle)

\* a variant that groups every hit, with or without an nct_id
RECURSIVE GroupHitsNoSkip(_, _)
GroupHitsNoSkip(hs, g) ==
    IF hs = <<>> THEN g
    ELSE GroupHitsNoSkip(Tail(hs), Put(g, Bundle(Head(hs).payload)))

\* the loop over the hits; a hit without an nct_id is skipped
RECURSIVE GroupHits(_, _)
GroupHits(hs, g) ==
    IF hs = <<>> THEN g
    ELSE IF Truthy(Head(hs).payload.nct_id)
         THEN GroupHits(Tail(hs), Put(g, Bundle(Head(hs).payload)))
         ELSE GroupHits(Tail(hs), g)

\* points with eligibility criteria: strings, empty strings and nulls
WithCriteria(point, incl, excl) ==
    [point EXCEPT !.payload.inclusion_criteria = incl,
                  !.payload.exclusion_criteria = excl]

Bundled1 == WithCriteria(Trial1, List(<<Str(sC1), Str(<<>>), None, Str(sC2)>>),
                         List(<<Str(sX1)>>))
Bundled2 == WithCriteria(Trial2, ListNone, List(<<Str(<<>>), None>>))
Bundled3 == WithCriteria(Trial3, List(<<>>), List(<<None, Str(sM1)>>))
\* a second point under the nct_id of Bundled1
Bundled1Again ==
    WithCriteria(Point(Payload(Str(sN1), Str(sALL), NumNone, NumNone, <<>>, <<>>, <<>>), sM1),
                 List(<<Str(sM1)>>), ListNone)
\* points whose nct_id is null or empty, and a point without payload
\* (h.payload or {}: every field reads as None)
NoNctHit ==
    WithCriteria(Point(Payload(None, Str(sALL), NumInt(18), NumNone, <<>>, <<>>, <<>>), sC1),
                 List(<<Str(sC1)>>), ListNone)
EmptyNctHit ==
    WithCriteria(Point(Payload(Str(<<>>), Str(sMALE), NumInt(18), NumInt(65), <<>>, <<>>, <<>>), sM1),
                 ListNone, List(<<Str(sX1)>>))
NoPayloadHit == Point(Payload(None, None, NumNone, NumNone, <<>>, <<>>, <<>>), sC2)

\* the end-to-end example: a 30-year-old woman with breast cancer in the usa,
\* a trial open to her and a trial for men whose text equals her query
sBreastCancer == <<"b","r","e","a","s","t"," ","c","a","n","c","e","r">>
ExampleSpec ==
    [age |-> AgeInt(30), sex |-> Str(sFEMALE),
     location |-> LocDict(None, None, Str(sUsa)),
     conditions |-> List(<<sBreastCancer>>), medications |-> List(<<>>),
     extra_terms |-> List(<<>>)]
ExampleMatch ==
    Point(Payload(Str(sN1), Str(sALL), NumInt(18), NumNone, <<>>, <<>>, <<sUsa>>),
          sBreastCancer)
ExampleMale ==
    Point(Payload(Str(sN2), Str(sMALE), NumInt(18), NumNone, <<>>, <<>>, <<sUsa>>),
          sConditionsLabel \o sBreastCancer)
ExampleIndex == <<ExampleMale, ExampleMatch>>

BundlerIndexes ==
    {<<Bundled1, NoNctHit, Bundled2, EmptyNctHit, Bundled3>>,
     <<Bundled1Again, Bundled2, NoPayloadHit, Bundled1>>,
     ExampleIndex}

BundlerSpecs ==
    [age : {AgeNone, AgeInt(40)}, sex : {None, Str(sMALE)}, location : {LocNone},
     conditions : SpecConditions, medications : SpecMedications,
     extra_terms : {ListAbsent}]
    \cup {ExampleSpec}

RetrieveInit ==
    /\ index \in BundlerIndexes
    /\ Idle

\* a caller enters retrieve_with_exclusions(spec, max_trials=m)
RetrieveCall ==
    /\ pc = "idle"
    /\ \E s \in BundlerSpecs, m \in 1..MaxTrials :
          /\ spec' = s
          /\ max_trials' = m
    /\ pc' = "build_filters"
    /\ UNCHANGED <<index, qfilter, vec, embed_calls, searches, hits, result,
                   refined, base_result, base_matches>>
    /\ UNCHANGED other_vars

\* the loop over the hits _search_trials returned, and the return of grouped
Group ==
    /\ pc = "done"
    /\ grouped' = GroupHits(result, <<>>)
    /\ pc' = "returned"
    /\ UNCHANGED <<fault, error>>
    /\ UNCHANGED <<index, spec, search_locals, composer_vars, parser_vars, facet_vars, more_vars>>

\* the call is over (returned or raised); the per-call state is discarded
RetrieveReturn ==
    /\ pc \in {"returned", "raised"}
    /\ pc' = "idle"
    /\ spec' = EmptySpec
    /\ max_trials' = 1
    /\ qfilter' = NoFilter
    /\ vec' = NoVec
    /\ embed_calls' = <<>>
    /\ searches' = <<>>
    /\ hits' = <<>>
    /\ result' = <<>>
    /\ grouped' = <<>>
    /\ fault' = NoError
    /\ error' = NoError
    /\ UNCHANGED <<index, refined, base_result, base_matches, composer_vars,
                   parser_vars, facet_vars, more_vars>>

RetrieveNext ==
    \/ RetrieveCall
    \/ BuildFilters
    \/ WeightedQueryVector
    \/ IndexSearch
    \/ PostFilter
    \/ Group
    \/ RetrieveReturn

RetrieveSpec == RetrieveInit /\ [][RetrieveNext]_vars

-----------------------------------------------------------------------------
(* Failures of the services retrieve_with_exclusions calls.  Neither       *)
(* _weighted_query_vector nor _search_trials nor retrieve_with_exclusions  *)
(* has a try block: an exception of embedder.embed or client.search leaves *)
(* the call as it was raised.                                              *)

\* the exceptions a service call may raise
ServiceErrors == {"timeout", "unavailable"}

\* embedder.embed(...) raises; the texts had been handed over
EmbedFails ==
    /\ pc = "query_vector"
    /\ QuerySpecValid(spec)
    /\ embed_calls' = embed_calls \o _weighted_query_vector(spec).calls
    /\ \E e \in ServiceErrors :
          /\ fault' = e
          /\ error' = e
    /\ pc' = "raised"
    /\ UNCHANGED <<index, spec, max_trials, qfilter, vec, searches, hits, result,
                   refined, base_result, base_matches, grouped>>
    /\ UNCHANGED <<composer_vars, parser_vars, facet_vars, more_vars>>

\* a variant that answers a failed search with no hits
SearchFailsSwallowed ==
    /\ pc = "search"
    /\ searches' = Append(searches, [query_filter |-> qfilter, limit |-> max_trials])
    /\ \E e \in ServiceErrors : fault' = e
    /\ hits' = <<>>
    /\ pc' = "postfilter"
    /\ UNCHANGED <<index, spec, max_trials, qfilter, vec, embed_calls, result,
                   refined, base_result, base_matches, grouped, error>>
    /\ UNCHANGED <<composer_vars, parser_vars, facet_vars, more_vars>>

\* client.search(...) raises; the request had been issued
SearchFails ==
    /\ pc = "search"
    /\ searches' = Append(searches, [query_filter |-> qfilter, limit |-> max_trials])
    /\ \E e \in ServiceErrors :
          /\ fault' = e
          /\ error' = e
    /\ pc' = "raised"
    /\ UNCHANGED <<index, spec, max_trials, qfilter, vec, embed_calls, hits, result,
                   refined, base_result, base_matches, grouped>>
    /\ UNCHANGED <<composer_vars, parser_vars, facet_vars, more_vars>>

RetrieveFailNext ==
    \/ RetrieveCall
    \/ BuildFilters
    \/ WeightedQueryVector
    \/ IndexSearch
    \/ PostFilter
    \/ Group
    \/ RetrieveReturn
    \/ EmbedFails
    \/ SearchFails

RetrieveFailSpec == RetrieveInit /\ [][RetrieveFailNext]_vars

-----------------------------------------------------------------------------
(* clinical_rag/retrieval.py: get_location_facets                          *)

sNy == <<"n","y">>
sTor == <<"t","o","r">>
sUsaMixed == <<" ","U","s","a">>

\* code points, for the order sorted() puts strings in
Ord(c) ==
    IF c \in Lowers THEN 96 + PosIn(c, LowerAlpha)
    ELSE IF c \in Uppers THEN 64 + PosIn(c, UpperAlpha)
    ELSE IF IsIn(c, DigitChars) THEN 47 + PosIn(c, DigitChars)
    ELSE CASE c = " " -> 32 [] c = "," -> 44 [] c = ":" -> 58 [] OTHER -> 0

RECURSIVE StrLeq(_, _)
StrLeq(a, b) ==
    IF a = <<>> THEN TRUE
    ELSE IF b = <<>> THEN FALSE
    ELSE IF Head(a) = Head(b) THEN StrLeq(Tail(a), Tail(b))
    ELSE Ord(Head(a)) < Ord(Head(b))

\* a variant that lists the values from the greatest to the least
RECURSIVE SortedDescending(_)
SortedDescending(values) ==
    IF values = {} THEN <<>>
    ELSE LET greatest == CHOOSE x \in values : \A y \in values : StrLeq(y, x)
         IN  <<greatest>> \o SortedDescending(values \ {greatest})

\* sorted(values) for a set of strings
RECURSIVE Sorted(_)
Sorted(values) ==
    IF values = {} THEN <<>>
    ELSE LET least == CHOOSE x \in values : \A y \in values : StrLeq(x, y)
         IN  <<least>> \o Sorted(values \ {least})

\* a point whose payload carries the given locations list
WithLocations(point, locs) == [point EXCEPT !.payload.locations = locs]

FacetPoint1 == WithLocations(Trial1, List(<<LocDict(Str(sBostonRaw), Str(sMaRaw), Str(sUsaRaw))>>))
FacetPoint2 == WithLocations(Trial2, List(<<LocDict(None, Str(sNy), Str(sUsa))>>))
FacetPoint3 == WithLocations(Trial5, List(<<LocDict(Str(sTor), None, Str(sCa))>>))
\* entries that are not a dict, all blank, without a country, country only,
\* and one that repeats a region in another letter case
FacetPoint4 ==
    WithLocations(Trial4,
                  List(<<LocList,
                         LocDict(Str(sBlank), Str(<<>>), None),
                         LocDict(Str(sTor), Str(sNy), None),
                         LocDict(None, None, Str(sCa)),
                         LocDict(Str(sNy), Str(sMa), Str(sUsaMixed))>>))
\* a point without locations
FacetPoint5 == Trial3

FacetCatalog == {FacetPoint1, FacetPoint2, FacetPoint3, FacetPoint4, FacetPoint5}

\* the collections scanned: up to MaxPoints distinct points in any order
FacetIndexes ==
    UNION {{ix \in [1..n -> FacetCatalog] : \A i, j \in 1..n : i # j => ix[i] # ix[j]}
           : n \in 0..MaxPoints}

\* client.scroll(limit, offset): the points from the cursor on, at most limit
\* of them, and the id of the point after them (None when there is none);
\* a point's id is its position in the collection
Scroll(points, offset, limit) ==
    LET first == IF offset.t = "none" THEN 1 ELSE offset.id
        last == IF first + limit - 1 < Len(points) THEN first + limit - 1 ELSE Len(points)
    IN  [ids |-> [k \in 1..(last - first + 1) |-> first + k - 1],
         next_page_offset |-> IF last < Len(points) THEN OffsetId(last + 1) ELSE OffsetNone]

\* defaultdict(set): m[key].add(value)
AddTo(m, key, value) ==
    [k \in DOMAIN m \cup {key} |->
        IF k = key THEN (IF key \in DOMAIN m THEN m[key] ELSE {}) \cup {value}
        ELSE m[k]]

\* s.strip().lower() for the strings of the catalog's location entries,
\* computed once
CatalogStrings ==
    UNION {UNION {{OrEmpty(l.country), OrEmpty(l.state), OrEmpty(l.city)}
                  : l \in Elems(CriteriaOf(pt.payload.locations))}
           : pt \in FacetCatalog}
StripLower == [s \in CatalogStrings |-> Lower(Strip(s))]

\* (loc.get(field) or "").strip().lower()
FacetValue(x) ==
    IF OrEmpty(x) \in CatalogStrings THEN StripLower[OrEmpty(x)]
    ELSE Lower(Strip(OrEmpty(x)))

\* a variant that files a city without state under its country and city
AddLocationCityAsState(acc, loc) ==
    LET country == FacetValue(loc.country)
        state == FacetValue(loc.state)
        city == FacetValue(loc.city)
    IN  IF loc.t # "dict" \/ country = <<>> THEN acc
        ELSE [countries |-> acc.countries \cup {country},
              states_by_country |->
                  IF state # <<>> THEN AddTo(acc.states_by_country, country, state)
                  ELSE acc.states_by_country,
              cities_by_region |->
                  IF city # <<>> THEN AddTo(acc.cities_by_region, <<country, city>>, city)
                  ELSE acc.cities_by_region]

\* the body of the loop over the locations of a point
AddLocation(acc, loc) ==
    LET country == FacetValue(loc.country)
        state == FacetValue(loc.state)
        city == FacetValue(loc.city)
    IN  IF loc.t # "dict" THEN acc
        ELSE IF country = <<>> /\ state = <<>> /\ city = <<>> THEN acc
        ELSE [countries |->
                  IF country # <<>> THEN acc.countries \cup {country} ELSE acc.countries,
              states_by_country |->
                  IF country # <<>> /\ state # <<>>
                  THEN AddTo(acc.states_by_country, country, state)
                  ELSE acc.states_by_country,
              cities_by_region |->
                  IF country # <<>> /\ state # <<>>
                  THEN (IF city # <<>>
                        THEN AddTo(acc.cities_by_region, <<country, state>>, city)
                        ELSE acc.cities_by_region)
                  ELSE IF country # <<>> /\ city # <<>>
                       THEN AddTo(acc.cities_by_region, <<country, <<>> >>, city)
                       ELSE acc.cities_by_region]

\* for loc in payload.get("locations") or []  (the sets after one entry are
\* bound to a before the loop goes on)
RECURSIVE AddLocations(_, _)
AddLocations(acc, locs) ==
    IF locs = <<>> THEN acc
    ELSE CHOOSE r \in {AddLocations(a, Tail(locs)) : a \in {AddLocation(acc, Head(locs))}} : TRUE

\* for point in points, by id
RECURSIVE AddPoints(_, _, _)
AddPoints(acc, points, ids) ==
    IF ids = <<>> THEN acc
    ELSE CHOOSE r \in {AddPoints(a, points, Tail(ids))
                       : a \in {AddLocations(acc, CriteriaOf(points[Head(ids)].payload.locations))}}
             : TRUE

FacetsInit ==
    /\ index \in FacetIndexes
    /\ Idle

\* a caller enters get_location_facets(limit_per_scroll)
FacetsCall ==
    /\ pc = "idle"
    /\ \E l \in 1..MaxLimit : limit_per_scroll' = l
    /\ pc' = "scroll"
    /\ UNCHANGED <<next_offset, scrolls, scanned, countries, states_by_country,
                   cities_by_region, facets>>
    /\ UNCHANGED <<index, spec, search_locals, composer_vars, parser_vars, bundler_vars,
                   memo_vars, more_vars>>

\* a variant that asks for the first page every time
ScrollPageFromStart ==
    /\ pc = "scroll"
    /\ LET page == Scroll(index, OffsetNone, limit_per_scroll)
           acc == AddPoints([countries |-> countries,
                             states_by_country |-> states_by_country,
                             cities_by_region |-> cities_by_region], index, page.ids)
       IN  /\ scrolls' = Append(scrolls, OffsetNone)
           /\ next_offset' = page.next_page_offset
           /\ scanned' = scanned \o page.ids
           /\ countries' = acc.countries
           /\ states_by_country' = acc.states_by_country
           /\ cities_by_region' = acc.cities_by_region
           /\ pc' = IF page.ids = <<>> \/ page.next_page_offset = OffsetNone
                    THEN "sort" ELSE "scroll"
    /\ UNCHANGED <<facets, limit_per_scroll>>
    /\ UNCHANGED <<index, spec, search_locals, composer_vars, parser_vars, bundler_vars,
                   memo_vars, more_vars>>

\* one pass of the while loop: a scroll request from the cursor, the page's
\* points processed, and the break on an empty page or a null cursor
ScrollPage ==
    /\ pc = "scroll"
    /\ LET page == Scroll(index, next_offset, limit_per_scroll)
           acc == AddPoints([countries |-> countries,
                             states_by_country |-> states_by_country,
                             cities_by_region |-> cities_by_region], index, page.ids)
       IN  /\ scrolls' = Append(scrolls, next_offset)
           /\ next_offset' = page.next_page_offset
           /\ scanned' = scanned \o page.ids
           /\ countries' = acc.countries
           /\ states_by_country' = acc.states_by_country
           /\ cities_by_region' = acc.cities_by_region
           /\ pc' = IF page.ids = <<>> \/ page.next_page_offset = OffsetNone
                    THEN "sort" ELSE "scroll"
    /\ UNCHANGED <<facets, limit_per_scroll>>
    /\ UNCHANGED <<index, spec, search_locals, composer_vars, parser_vars, bundler_vars,
                   memo_vars, more_vars>>

\* the sorted lists are built and returned
SortFacets ==
    /\ pc = "sort"
    /\ facets' =
          [countries |-> Sorted(countries),
           states_by_country |->
               [k \in DOMAIN states_by_country |-> Sorted(states_by_country[k])],
           cities_by_region |->
               [k \in DOMAIN cities_by_region |-> Sorted(cities_by_region[k])]]
    /\ pc' = "facets"
    /\ UNCHANGED <<next_offset, scrolls, scanned, countries, states_by_country,
                   cities_by_region, limit_per_scroll>>
    /\ UNCHANGED <<index, spec, search_locals, composer_vars, parser_vars, bundler_vars,
                   memo_vars, more_vars>>

\* the caller has the facets; the locals of the call are discarded
FacetsReturn ==
    /\ pc = "facets"
    /\ pc' = "idle"
    /\ next_offset' = OffsetNone
    /\ scrolls' = <<>>
    /\ scanned' = <<>>
    /\ countries' = {}
    /\ states_by_country' = <<>>
    /\ cities_by_region' = <<>>
    /\ facets' = NoFacets
    /\ limit_per_scroll' = 1
    /\ UNCHANGED <<index, spec, search_locals, composer_vars, parser_vars, bundler_vars,
                   memo_vars, more_vars>>

FacetsNext ==
    \/ FacetsCall
    \/ ScrollPage
    \/ SortFacets
    \/ FacetsReturn

FacetsSpec == FacetsInit /\ [][FacetsNext]_vars

\* the loop and the return are not suspended: once entered, the call runs on
FacetsLiveSpec ==
    FacetsSpec /\ WF_vars(ScrollPage) /\ WF_vars(SortFacets)

-----------------------------------------------------------------------------
(* get_location_facets as callers see it: the function above behind        *)
(* functools.lru_cache(maxsize=1), called in one process in turn with      *)
(* retrieve_with_exclusions                                                *)

\* the points {usa, ma, boston}, {usa, ny}, {ca, toronto}
FacetsExample == <<FacetPoint1, FacetPoint2, FacetPoint3>>

\* the collections the process is started on
MemoIndexes == {FacetsExample, <<FacetPoint4, FacetPoint1>>}

MemoInit ==
    /\ index \in MemoIndexes
    /\ Idle

\* a variant of the wrapper that calls the function on every call
MemoCallAlwaysScans ==
    /\ pc = "idle"
    /\ \E l \in 1..MaxLimit : limit_per_scroll' = l
    /\ pc' = "scroll"
    /\ UNCHANGED <<next_offset, scrolls, scanned, countries, states_by_country,
                   cities_by_region, facets, memo_vars>>
    /\ UNCHANGED <<index, spec, search_locals, composer_vars, parser_vars, bundler_vars,
                   more_vars>>

\* get_location_facets(l): the wrapper looks the argument up; on a hit it
\* returns the stored value, on a miss it calls the function
MemoCall ==
    /\ pc = "idle"
    /\ \E l \in 1..MaxLimit :
          /\ limit_per_scroll' = l
          /\ IF facets_cache.t = "entry" /\ facets_cache.key = l
             THEN /\ facets' = facets_cache.value
                  /\ pc' = "memoized"
             ELSE /\ facets' = facets
                  /\ pc' = "scroll"
    /\ UNCHANGED <<next_offset, scrolls, scanned, countries, states_by_country,
                   cities_by_region, memo_vars>>
    /\ UNCHANGED <<index, spec, search_locals, composer_vars, parser_vars, bundler_vars,
                   more_vars>>

\* client.scroll(...) raises: the exception leaves the function and the
\* wrapper, which stores nothing
ScrollFails ==
    /\ pc = "scroll"
    /\ scrolls' = Append(scrolls, next_offset)
    /\ pc' = "scan_failed"
    /\ UNCHANGED <<next_offset, scanned, countries, states_by_country,
                   cities_by_region, facets, limit_per_scroll, memo_vars>>
    /\ UNCHANGED <<index, spec, search_locals, composer_vars, parser_vars, bundler_vars,
                   more_vars>>

\* the function has returned: the wrapper stores the value under the
\* argument, in place of the entry it held
MemoStore ==
    /\ pc = "facets"
    /\ facets_cache' = Entry(limit_per_scroll, facets)
    /\ completed_scans' = completed_scans \cup {limit_per_scroll}
    /\ pc' = "stored"
    /\ UNCHANGED <<next_offset, scrolls, scanned, countries, states_by_country,
                   cities_by_region, facets, limit_per_scroll>>
    /\ UNCHANGED <<index, spec, search_locals, composer_vars, parser_vars, bundler_vars,
                   more_vars>>

\* the caller has the facets or the exception; the locals are discarded
MemoReturn ==
    /\ pc \in {"stored", "memoized", "scan_failed"}
    /\ pc' = "idle"
    /\ next_offset' = OffsetNone
    /\ scrolls' = <<>>
    /\ scanned' = <<>>
    /\ countries' = {}
    /\ states_by_country' = <<>>
    /\ cities_by_region' = <<>>
    /\ facets' = NoFacets
    /\ limit_per_scroll' = 1
    /\ UNCHANGED memo_vars
    /\ UNCHANGED <<index, spec, search_locals, composer_vars, parser_vars, bundler_vars,
                   more_vars>>

MemoNext ==
    \/ MemoCall
    \/ ScrollPage
    \/ ScrollFails
    \/ SortFacets
    \/ MemoStore
    \/ MemoReturn
    \/ RetrieveCall
    \/ BuildFilters
    \/ WeightedQueryVector
    \/ IndexSearch
    \/ PostFilter
    \/ Group
    \/ RetrieveReturn

MemoSpec == MemoInit /\ [][MemoNext]_vars

-----------------------------------------------------------------------------
(* clinical_rag/retrieval.py: _get_client and _get_embedder, each behind   *)
(* functools.lru_cache(maxsize=1), called by queries that run at the same  *)
(* time.  The wrapper looks the key up, calls the function on a miss       *)
(* without holding a lock, and stores the result unless the key has been   *)
(* stored in the meantime; the caller gets the object its own call built.  *)

\* the query holds handle h of the given kind and moves on: _search_trials
\* asks for the client first, _weighted_query_vector for the embedder later
Obtained(q, kind, h) ==
    IF kind = "client"
    THEN [q EXCEPT !.client = h, !.made = NoHandle, !.kind = "embedder", !.pc = "lookup"]
    ELSE [q EXCEPT !.embedder = h, !.made = NoHandle, !.pc = "done"]

\* a query enters _search_trials
StartQuery ==
    /\ \E q \in DOMAIN queries :
          /\ queries[q].pc = "idle"
          /\ queries' = [queries EXCEPT ![q] = [@ EXCEPT !.pc = "lookup", !.kind = "client"]]
    /\ UNCHANGED <<lru, built>>
    /\ UNCHANGED <<index, spec, pc, search_locals, composer_vars, parser_vars,
                   bundler_vars, facet_vars, judge_vars, ingest_vars>>

\* the wrapper's lookup: a hit returns the stored object, a miss goes on to
\* call the constructor
HandleLookup ==
    /\ \E q \in DOMAIN queries :
          /\ queries[q].pc = "lookup"
          /\ queries' =
                [queries EXCEPT ![q] =
                    IF lru[@.kind] # NoHandle
                    THEN Obtained(@, @.kind, lru[@.kind])
                    ELSE [@ EXCEPT !.pc = "construct"]]
    /\ UNCHANGED <<lru, built>>
    /\ UNCHANGED <<index, spec, pc, search_locals, composer_vars, parser_vars,
                   bundler_vars, facet_vars, judge_vars, ingest_vars>>

\* QdrantClient(...) or TextEmbedding(...) builds a new object
HandleConstruct ==
    /\ \E q \in DOMAIN queries :
          /\ queries[q].pc = "construct"
          /\ built' = [built EXCEPT ![queries[q].kind] = @ + 1]
          /\ queries' = [queries EXCEPT ![q] =
                            [@ EXCEPT !.made = built[queries[q].kind] + 1,
                                      !.pc = "store"]]
    /\ UNCHANGED lru
    /\ UNCHANGED <<index, spec, pc, search_locals, composer_vars, parser_vars,
                   bundler_vars, facet_vars, judge_vars, ingest_vars>>

\* back in the wrapper: the object is stored if the slot is still empty,
\* and returned either way
HandleStore ==
    /\ \E q \in DOMAIN queries :
          /\ queries[q].pc = "store"
          /\ lru' = IF lru[queries[q].kind] = NoHandle
                    THEN [lru EXCEPT ![queries[q].kind] = queries[q].made]
                    ELSE lru
          /\ queries' = [queries EXCEPT ![q] = Obtained(@, @.kind, @.made)]
    /\ UNCHANGED built
    /\ UNCHANGED <<index, spec, pc, search_locals, composer_vars, parser_vars,
                   bundler_vars, facet_vars, judge_vars, ingest_vars>>

\* the query is answered
FinishQuery ==
    /\ \E q \in DOMAIN queries :
          /\ queries[q].pc = "done"
          /\ queries' = [queries EXCEPT ![q] = QueryAtRest]
    /\ UNCHANGED <<lru, built>>
    /\ UNCHANGED <<index, spec, pc, search_locals, composer_vars, parser_vars,
                   bundler_vars, facet_vars, judge_vars, ingest_vars>>

SingletonNext ==
    \/ StartQuery
    \/ HandleLookup
    \/ HandleConstruct
    \/ HandleStore
    \/ FinishQuery

SingletonSpec == Init /\ [][SingletonNext]_vars

-----------------------------------------------------------------------------
(* clinical_rag/judge.py: judge_grouped and judge_from_text, from the      *)
(* language model's answer to the returned list of verdicts.  An answer is *)
(* a JSON text (or a text json.loads rejects), bare or inside a ``` fence, *)
(* with or without prose around it; prose and fences hold no brackets.     *)

sINELIGIBLE == <<"I","N","E","L","I","G","I","B","L","E">>
sPossiblyEligible ==
    <<"P","O","S","S","I","B","L","Y"," ","E","L","I","G","I","B","L","E">>
sIneligibleRaw == <<" ","i","n","e","l","i","g","i","b","l","e"," ">>
sEligible == <<"E","l","i","g","i","b","l","e">>
sNoneText == <<"N","o","n","e">>

\* JSON values: a text json.loads rejects, an object, an array of elements
InvalidJson == [t |-> "invalid", items |-> <<>>]
JsonObject == [t |-> "object", items |-> <<>>]
JsonArray(items) == [t |-> "array", items |-> items]

\* array elements: an object with its eligibility and explanation members
\* (absent, null or a string), or a value that is no object
Verdict(eligibility, explanation) ==
    [t |-> "dict", eligibility |-> eligibility, explanation |-> explanation]
NonObject(kind) == [t |-> kind, eligibility |-> StrAbsent, explanation |-> StrAbsent]

JudgeElements ==
    {Verdict(e, x) :
        e \in {StrAbsent, None, Str(sINELIGIBLE), Str(sIneligibleRaw), Str(sEligible),
               Str(sPossiblyEligible)},
        x \in {StrAbsent, Str(sX1)}}
    \cup {NonObject("str"), NonObject("none")}

JudgeArrays ==
    UNION {[1..n -> JudgeElements] : n \in 0..MaxVerdicts}

Answer(prose, fenced, body) ==
    [t |-> "text", prose |-> prose, fenced |-> fenced, body |-> body]

JudgeAnswers ==
    {NoAnswer} \cup
    {Answer(p, f, b) : p \in BOOLEAN, f \in BOOLEAN,
                       b \in {InvalidJson, JsonObject} \cup {JsonArray(a) : a \in JudgeArrays}}

\* content = resp.choices[0].message.content or "[]"
ContentOf(answer) ==
    IF answer.t = "none" THEN Answer(FALSE, FALSE, JsonArray(<<>>)) ELSE answer

\* _strip_fences: the fence goes when the stripped text starts and ends with it
_strip_fences(c) == IF c.fenced /\ ~c.prose THEN [c EXCEPT !.fenced = FALSE] ELSE c

\* content[start : end + 1] for the first "[" and the last "]", when there are any
Bracketed(c) ==
    IF c.body.t = "array" THEN <<Answer(FALSE, FALSE, c.body)>> ELSE <<>>

\* json.loads(candidate): the value, or a text that is no JSON
JsonLoads(c) == IF c.prose \/ c.fenced THEN InvalidJson ELSE c.body

\* candidates_to_try
Candidates(fn, c) ==
    <<c, _strip_fences(c)>> \o (IF fn = "judge_from_text" THEN Bracketed(c) ELSE <<>>)

\* the loop over the candidates: the first that loads as a list is taken
RECURSIVE FirstList(_)
FirstList(cands) ==
    IF cands = <<>> THEN <<>>
    ELSE IF JsonLoads(Head(cands)).t = "array" THEN JsonLoads(Head(cands)).items
    ELSE FirstList(Tail(cands))

\* str(item.get(key, ""))
PyStr(x) == CASE x.t = "str" -> x.s [] x.t = "none" -> sNoneText [] OTHER -> <<>>

\* the body of the try block, for an element that is an object
Normalized(item) ==
    [item EXCEPT
        !.eligibility = Str(IF Upper(Strip(PyStr(item.eligibility))) = sINELIGIBLE
                            THEN sINELIGIBLE ELSE sPossiblyEligible),
        !.explanation = IF item.explanation.t = "str" THEN item.explanation
                        ELSE Str(PyStr(item.explanation))]

\* the verdicts appended before the loop ends or an exception leaves it
RECURSIVE NormalizedPrefix(_)
NormalizedPrefix(items) ==
    IF items = <<>> \/ Head(items).t # "dict" THEN <<>>
    ELSE <<Normalized(Head(items))>> \o NormalizedPrefix(Tail(items))

\* the caller asks for verdicts and the language model answers
JudgeCall ==
    /\ pc = "idle"
    /\ \E fn \in {"judge_grouped", "judge_from_text"}, a \in JudgeAnswers :
          /\ judge_fn' = fn
          /\ judge_content' = a
    /\ pc' = "judge_parse"
    /\ UNCHANGED <<judge_parsed, judge_data>>
    /\ UNCHANGED <<index, spec, search_locals, composer_vars, parser_vars, bundler_vars,
                   facet_vars, singleton_vars, ingest_vars>>

\* parsed = the first candidate that json.loads reads as a list, else []
JudgeParse ==
    /\ pc = "judge_parse"
    /\ judge_parsed' = FirstList(Candidates(judge_fn, ContentOf(judge_content)))
    /\ pc' = "judge_normalize"
    /\ UNCHANGED <<judge_fn, judge_content, judge_data>>
    /\ UNCHANGED <<index, spec, search_locals, composer_vars, parser_vars, bundler_vars,
                   facet_vars, singleton_vars, ingest_vars>>

\* the loop over parsed.  For an element that is no object item.get raises
\* AttributeError; the handler runs item["eligibility"] = ..., which raises
\* TypeError for a str, a number, None or a list, and that leaves the function
JudgeNormalize ==
    /\ pc = "judge_normalize"
    /\ judge_data' = NormalizedPrefix(judge_parsed)
    /\ pc' = IF \E i \in DOMAIN judge_parsed : judge_parsed[i].t # "dict"
             THEN "judge_raised" ELSE "judged"
    /\ UNCHANGED <<judge_fn, judge_content, judge_parsed>>
    /\ UNCHANGED <<index, spec, search_locals, composer_vars, parser_vars, bundler_vars,
                   facet_vars, singleton_vars, ingest_vars>>

\* the caller has the verdicts or the exception
JudgeReturn ==
    /\ pc \in {"judged", "judge_raised"}
    /\ pc' = "idle"
    /\ judge_fn' = "judge_grouped"
    /\ judge_content' = NoAnswer
    /\ judge_parsed' = <<>>
    /\ judge_data' = <<>>
    /\ UNCHANGED <<index, spec, search_locals, composer_vars, parser_vars, bundler_vars,
                   facet_vars, singleton_vars, ingest_vars>>

JudgeNext ==
    \/ JudgeCall
    \/ JudgeParse
    \/ JudgeNormalize
    \/ JudgeReturn

JudgeSpec == Init /\ [][JudgeNext]_vars

-----------------------------------------------------------------------------
(* ingest/main.py: the upsert loop of main() and flush_batch.  A record is *)
(* modelled by its nct_id and its trial_title; the payload keeps both.     *)

sCtgovPrefix == <<"c","t","g","o","v",":">>

Record(nct, title) == [nct_id |-> nct, trial_title |-> title]

\* records with an nct_id (one of them twice), and records without
IngestCatalog ==
    {Record(Str(sN1), sC1), Record(Str(sN2), sBostonRaw), Record(Str(sN1), sX1),
     Record(None, sM1), Record(Str(<<>>), sC2)}

\* what the source may yield: every sequence of distinct records
TrialSources ==
    UNION {{src \in [1..n -> IngestCatalog] :
                \A i, j \in 1..n : src[i] = src[j] => i = j}
           : n \in 0..MaxRecords}

\* str(uuid.uuid5(uuid.NAMESPACE_URL, f"ctgov-trial:{nct_id}")): a function of the name
Uuid5(nct) == [namespace |-> "url", name |-> sCtgovPrefix \o nct]

\* _trial_embedding_text for a record without conditions and interventions
_trial_embedding_text(rec) == Strip(rec.trial_title)

\* the payload appended to metadata
PayloadOf(rec) == [nct_id |-> rec.nct_id.s, trial_title |-> rec.trial_title]

\* client.upload_collection(vectors=docs, ids=ids, payload=metadata): point i
\* is made of position i of each list
Zipped(docs, point_ids, payloads) ==
    [i \in 1..Len(point_ids) |->
        [id |-> point_ids[i], text |-> docs[i], payload |-> payloads[i]]]

\* a variant that leaves every upload to the end
NeedsFlushNever(n, size) == FALSE

\* if len(texts) >= batch_size
NeedsFlush(n, size) == n >= size

\* if args.resume_from and total < args.resume_from
Resuming(count, resume) == resume # 0 /\ count < resume

\* the ingest starts: the source, --resume-from and the batch size are fixed
IngestStart ==
    /\ pc = "idle"
    /\ \E src \in TrialSources, r \in 0..MaxResume, b \in 1..MaxBatch :
          /\ trial_source' = src
          /\ resume_from' = r
          /\ batch_size' = b
    /\ pc' = "ingest_loop"
    /\ UNCHANGED <<consumed, total_seen, texts_buf, ids_buf, metadata_buf, uploaded>>
    /\ UNCHANGED <<index, spec, search_locals, composer_vars, parser_vars, bundler_vars,
                   facet_vars, singleton_vars, judge_vars>>

\* one pass of the for loop, with a flush that succeeds when one is due
IngestRecord ==
    /\ pc = "ingest_loop"
    /\ consumed < Len(trial_source)
    /\ consumed' = consumed + 1
    /\ LET rec == trial_source[consumed + 1]
       IN  IF Resuming(total_seen, resume_from)
           THEN /\ total_seen' = total_seen + 1
                /\ UNCHANGED <<texts_buf, ids_buf, metadata_buf, uploaded>>
           ELSE IF ~Truthy(rec.nct_id)
           THEN UNCHANGED <<total_seen, texts_buf, ids_buf, metadata_buf, uploaded>>
           ELSE LET docs == Append(texts_buf, _trial_embedding_text(rec))
                    point_ids == Append(ids_buf, Uuid5(rec.nct_id.s))
                    payloads == Append(metadata_buf, PayloadOf(rec))
                IN  /\ total_seen' = total_seen + 1
                    /\ IF NeedsFlush(Len(docs), batch_size)
                       THEN /\ uploaded' = uploaded \o Zipped(docs, point_ids, payloads)
                            /\ texts_buf' = <<>>
                            /\ ids_buf' = <<>>
                            /\ metadata_buf' = <<>>
                       ELSE /\ texts_buf' = docs
                            /\ ids_buf' = point_ids
                            /\ metadata_buf' = payloads
                            /\ UNCHANGED uploaded
    /\ pc' = "ingest_loop"
    /\ UNCHANGED <<trial_source, resume_from, batch_size>>
    /\ UNCHANGED <<index, spec, search_locals, composer_vars, parser_vars, bundler_vars,
                   facet_vars, singleton_vars, judge_vars>>

\* one pass of the for loop in which the flush is due and upload_collection
\* raises: flush_batch re-raises before it clears the buffers
IngestRecordFlushFails ==
    /\ pc = "ingest_loop"
    /\ consumed < Len(trial_source)
    /\ ~Resuming(total_seen, resume_from)
    /\ Truthy(trial_source[consumed + 1].nct_id)
    /\ NeedsFlush(Len(texts_buf) + 1, batch_size)
    /\ consumed' = consumed + 1
    /\ total_seen' = total_seen + 1
    /\ texts_buf' = Append(texts_buf, _trial_embedding_text(trial_source[consumed + 1]))
    /\ ids_buf' = Append(ids_buf, Uuid5(trial_source[consumed + 1].nct_id.s))
    /\ metadata_buf' = Append(metadata_buf, PayloadOf(trial_source[consumed + 1]))
    /\ pc' = "ingest_raised"
    /\ UNCHANGED <<trial_source, resume_from, batch_size, uploaded>>
    /\ UNCHANGED <<index, spec, search_locals, composer_vars, parser_vars, bundler_vars,
                   facet_vars, singleton_vars, judge_vars>>

\* the source is exhausted: the last flush_batch(), a no-op on empty buffers
IngestFinalFlush ==
    /\ pc = "ingest_loop"
    /\ consumed = Len(trial_source)
    /\ uploaded' = uploaded \o Zipped(texts_buf, ids_buf, metadata_buf)
    /\ texts_buf' = <<>>
    /\ ids_buf' = <<>>
    /\ metadata_buf' = <<>>
    /\ pc' = "ingest_done"
    /\ UNCHANGED <<trial_source, resume_from, batch_size, consumed, total_seen>>
    /\ UNCHANGED <<index, spec, search_locals, composer_vars, parser_vars, bundler_vars,
                   facet_vars, singleton_vars, judge_vars>>

\* the last flush_batch() raises
IngestFinalFlushFails ==
    /\ pc = "ingest_loop"
    /\ consumed = Len(trial_source)
    /\ texts_buf # <<>>
    /\ pc' = "ingest_raised"
    /\ UNCHANGED ingest_vars
    /\ UNCHANGED <<index, spec, search_locals, composer_vars, parser_vars, bundler_vars,
                   facet_vars, singleton_vars, judge_vars>>

\* the ingest process ends
IngestExit ==
    /\ pc \in {"ingest_done", "ingest_raised"}
    /\ pc' = "idle"
    /\ trial_source' = <<>>
    /\ resume_from' = 0
    /\ batch_size' = 1
    /\ consumed' = 0
    /\ total_seen' = 0
    /\ texts_buf' = <<>>
    /\ ids_buf' = <<>>
    /\ metadata_buf' = <<>>
    /\ uploaded' = <<>>
    /\ UNCHANGED <<index, spec, search_locals, composer_vars, parser_vars, bundler_vars,
                   facet_vars, singleton_vars, judge_vars>>

IngestNext ==
    \/ IngestStart
    \/ IngestRecord
    \/ IngestRecordFlushFails
    \/ IngestFinalFlush
    \/ IngestFinalFlushFails
    \/ IngestExit

IngestSpec == Init /\ [][IngestNext]_vars

-----------------------------------------------------------------------------
(* Properties                                                              *)

Built == pc \in {"query_vector", "search", "postfilter", "done"}
Embedded == pc \in {"search", "postfilter", "done"}
Searched == pc \in {"postfilter", "done"}

CondsOn(key) == {qfilter.must[j] : j \in {k \in DOMAIN qfilter.must : qfilter.must[k].key = key}}

\* the point passes every condition of qfilter on the given key
PassesOn(key, point) == \A c \in CondsOn(key) : CondMatches(c, point.payload)

\* the point passes every condition of qfilter on the other keys
PassesOthers(key, point) ==
    \A j \in DOMAIN qfilter.must :
        qfilter.must[j].key # key => CondMatches(qfilter.must[j], point.payload)

\* C1 (as claimed): for an integer Spec.age the minimum-age predicate sent to
\* the index rejects a trial exactly when its min_age is a non-null value
\* greater than Spec.age; in particular a trial with null min_age passes.
C1_NullMinAgePasses ==
    (Searched /\ spec.age.t = "int") =>
        \A i \in DOMAIN index :
            LET lo == index[i].payload.min_age
            IN  ~PassesOn("min_age", index[i]) <=> (lo.t # "none" /\ lo.v > spec.age.v)

C3_AgeBoundsInclusive ==
    pc = "done" =>
        /\ \A i \in DOMAIN index :
              (index[i].payload.min_age = NumInt(18) /\ index[i].payload.max_age = NumInt(65)) =>
                  /\ (/\ spec.age \in {AgeInt(18), AgeInt(40), AgeInt(65)}
                      /\ PassesOthers("min_age", index[i])
                      /\ Len(Matching(index, qfilter)) <= max_trials)
                        => index[i] \in Elems(result)
                  /\ spec.age \in {AgeInt(17), AgeInt(66)} => index[i] \notin Elems(result)
        /\ \A i \in DOMAIN hits :
              hits[i].payload.max_age.t = "none" => hits[i] \in Elems(result)

C3_Witness ==
    /\ pc = "done"
    /\ spec.age = AgeInt(65)
    /\ Trial1 \in Elems(result)

\* Spec.sex is a str that reads MALE or FEMALE when letter case is ignored
SexIgnoringCase(x, word) == x.t = "str" /\ Lower(x.s) = Lower(word)

\* C4 (as claimed): a gender predicate is added exactly when Spec.sex is MALE
\* or FEMALE, and it admits a trial iff its gender is that same value or ALL.
C4_SexPredicateExactValue ==
    Searched =>
        /\ CondsOn("gender") # {} <=> spec.sex \in {Str(sMALE), Str(sFEMALE)}
        /\ \A c \in CondsOn("gender") : \A i \in DOMAIN index :
              CondMatches(c, index[i].payload)
                  <=> index[i].payload.gender \in {spec.sex, Str(sALL)}

\* C4 (amended): a gender predicate is added exactly when Spec.sex reads MALE
\* or FEMALE ignoring letter case; it is the only one, it admits a trial iff
\* its gender is the upper-case MALE / FEMALE or ALL, and every hit of the
\* search satisfies it.
C4_SexPredicate ==
    Built =>
        LET male == SexIgnoringCase(spec.sex, sMALE)
            female == SexIgnoringCase(spec.sex, sFEMALE)
            admitted == {Str(sALL)} \cup (IF male THEN {Str(sMALE)} ELSE {})
                                    \cup (IF female THEN {Str(sFEMALE)} ELSE {})
        IN  /\ CondsOn("gender") # {} <=> (male \/ female)
            /\ Cardinality(CondsOn("gender")) <= 1
            /\ \A c \in CondsOn("gender") : \A i \in DOMAIN index :
                  CondMatches(c, index[i].payload) <=> index[i].payload.gender \in admitted
            /\ (Searched /\ (male \/ female)) =>
                  \A i \in DOMAIN hits : hits[i].payload.gender \in admitted

C4_Witness ==
    /\ pc = "done"
    /\ spec.sex = Str(sMaleLower)
    /\ CondsOn("gender") # {}
    /\ \E i \in DOMAIN hits : hits[i].payload.gender = Str(sALL)
    /\ \E i \in DOMAIN hits : hits[i].payload.gender = Str(sMALE)
    /\ \E i \in DOMAIN index : index[i].payload.gender = Str(sFEMALE)

\* v is raw with the surrounding blanks removed and its letters in lower case
IsTrimmedLower(v, raw) ==
    /\ v # <<>>
    /\ v[1] # " " /\ v[Len(v)] # " "
    /\ \E a \in 0..Len(raw) :
          /\ a + Len(v) <= Len(raw)
          /\ \A i \in 1..Len(raw) :
                IF i > a /\ i <= a + Len(v)
                THEN v[i - a] = LowerChar(raw[i]) /\ ~IsIn(v[i - a], UpperAlpha)
                ELSE raw[i] = " "

\* the Spec gives the location field a value with a non-blank character
HasLocValue(x) ==
    /\ spec.location.t = "dict"
    /\ x.t = "str"
    /\ \E i \in DOMAIN x.s : x.s[i] # " "

\* the conditions of qfilter on one facet list are as the Spec value demands
LocPredicateOk(key, x) ==
    /\ CondsOn(key) # {} <=> HasLocValue(x)
    /\ Cardinality(CondsOn(key)) <= 1
    /\ \A c \in CondsOn(key) :
          /\ c.kind = "match_value"
          /\ IsTrimmedLower(c.value, x.s)
          /\ Searched => \A i \in DOMAIN hits : c.value \in FieldStrs(hits[i].payload, key)

\* C5: for each of city, state and country build_filters adds one exact
\* membership predicate on the matching facet list, carrying the trimmed
\* lower-cased Spec value, iff that value is present and not blank; a null,
\* missing or blank value and a null or non-mapping location add none; every
\* hit of the search holds the value in its facet list.
C5_LocationPredicates ==
    Built =>
        /\ LocPredicateOk("location_cities", spec.location.city)
        /\ LocPredicateOk("location_states", spec.location.state)
        /\ LocPredicateOk("location_countries", spec.location.country)

C5_Witness ==
    /\ pc = "done"
    /\ spec.location.t = "dict"
    /\ spec.location.city = Str(sBostonRaw)
    /\ spec.location.state = None
    /\ CondsOn("location_cities") = {MatchValue("location_cities", sBoston)}
    /\ CondsOn("location_states") = {}
    /\ Len(result) >= 1

\* no predicate applies: no sex reading MALE or FEMALE, no integer age, no
\* location field with a non-blank value
NoPredicateApplies ==
    /\ ~SexIgnoringCase(spec.sex, sMALE)
    /\ ~SexIgnoringCase(spec.sex, sFEMALE)
    /\ spec.age.t # "int"
    /\ ~HasLocValue(spec.location.city)
    /\ ~HasLocValue(spec.location.state)
    /\ ~HasLocValue(spec.location.country)

\* C6: build_filters returns None exactly when no predicate applies and the
\* search is then issued with no filter, returning the best max_trials points
\* of the whole collection; a returned filter is a conjunction of at least
\* one condition and never an empty condition list.
C6_EmptyFilterIsAbsent ==
    Built =>
        /\ qfilter = NoFilter <=> NoPredicateApplies
        /\ qfilter.t = "filter" => Len(qfilter.must) >= 1
        /\ qfilter.t = "none" => qfilter.must = <<>>
        /\ Searched =>
              /\ searches[Len(searches)].query_filter = qfilter
              /\ qfilter = NoFilter =>
                    Len(hits) = (IF Len(index) < max_trials THEN Len(index) ELSE max_trials)
              /\ \A i \in DOMAIN hits : \A j \in DOMAIN qfilter.must :
                    CondMatches(qfilter.must[j], hits[i].payload)

C6_Witness ==
    /\ pc = "done"
    /\ spec.sex = Str(sOTHER)
    /\ spec.location = LocDict(Str(sBlank), Str(<<>>), None)
    /\ spec.age = AgeStr(40)
    /\ qfilter = NoFilter
    /\ Len(hits) = max_trials

\* a is b with some elements left out, the others in the same order
RECURSIVE IsSubSeq(_, _)
IsSubSeq(a, b) ==
    IF a = <<>> THEN TRUE
    ELSE IF b = <<>> THEN FALSE
    ELSE IF Head(a) = Head(b) THEN IsSubSeq(Tail(a), Tail(b))
    ELSE IsSubSeq(a, Tail(b))

\* C7: _search_trials issues exactly one search, with limit = max_trials, and
\* returns a rank-order-preserving subsequence of its hits: never more than
\* max_trials trials and never more than the index returned.
C7_OneSearchNoOverFetch ==
    /\ Len(searches) <= 1
    /\ Searched =>
          /\ Len(searches) = 1
          /\ searches[1].limit = max_trials
          /\ Len(hits) <= max_trials
    /\ ~Searched => (searches = <<>> /\ result = <<>>)
    /\ pc = "done" =>
          /\ IsSubSeq(result, hits)
          /\ Len(result) <= max_trials
          /\ Len(result) <= Len(hits)
          /\ \A i \in DOMAIN result : \A j \in DOMAIN result :
                i < j => RatLeq(Score(vec, result[j]), Score(vec, result[i]))

C7_Witness ==
    /\ pc = "done"
    /\ Len(hits) = max_trials
    /\ Len(result) < Len(hits)
    /\ Len(result) >= 1
    /\ Len(Matching(index, qfilter)) > max_trials

\* C8: when a search whose matches were not cut by max_trials is repeated with
\* one more field of the Spec set and the same max_trials, the trials returned
\* are among those returned before.
C8_MonotonicNarrowing ==
    (refined /\ pc = "done" /\ base_matches < max_trials) =>
        /\ NctIds(result) \subseteq base_result
        /\ Len(result) <= Cardinality(base_result)

C8_Witness ==
    /\ refined
    /\ pc = "done"
    /\ base_matches < max_trials
    /\ Len(result) >= 1
    /\ NctIds(result) # base_result

\* the names of the components whose Spec list is not empty, in field order
PresentNames ==
    (IF spec.conditions.items # <<>> THEN <<"conditions">> ELSE <<>>)
    \o (IF spec.medications.items # <<>> THEN <<"medications">> ELSE <<>>)
    \o (IF spec.extra_terms.items # <<>> THEN <<"extra_terms">> ELSE <<>>)

\* the weight table, in hundredths
Hundredths(name) ==
    CASE name = "conditions" -> 50
      [] name = "medications" -> 25
      [] name = "extra_terms" -> 25
      [] OTHER -> 0

\* the rendered text of the component of that name
TextOf(name) ==
    LET parts == build_query_components(spec)
    IN  parts[CHOOSE i \in DOMAIN parts : parts[i].name = name].text

RECURSIVE SumHundredths(_)
SumHundredths(names) ==
    IF names = <<>> THEN 0 ELSE Hundredths(Head(names)) + SumHundredths(Tail(names))

\* sum over the first k components of weight (in hundredths) times coordinate d
\* of the component's embedding
RECURSIVE SumWeighted(_, _, _, _)
SumWeighted(names, embs, k, d) ==
    IF k = 0 THEN 0
    ELSE Hundredths(names[k]) * embs[k][d] + SumWeighted(names, embs, k - 1, d)

RECURSIVE SumRat(_)
SumRat(ws) == IF ws = <<>> THEN RatZero ELSE RatAdd(Head(ws), SumRat(Tail(ws)))

\* C9: with at least one qualifying component, one embed() call is made on
\* exactly the qualifying components' texts, in component order, and the
\* vector returned is, coordinate by coordinate, the sum of
\* (w_i / sum of the qualifying weights) * embedding(text_i); the normalized
\* weights sum to 1 and the vector has the embedding dimension.
C9_WeightedSum ==
    (Embedded /\ PresentNames # <<>>) =>
        LET items == QualifyingItems(build_query_components(spec))
            names == PresentNames
            texts == [i \in DOMAIN names |-> TextOf(names[i])]
            embs == [i \in DOMAIN names |-> Embed(texts[i])]
            total == SumHundredths(names)
        IN  /\ embed_calls = <<texts>>
            /\ Len(vec) = Dim
            /\ \A d \in 1..Dim :
                  vec[d] = Rat(SumWeighted(names, embs, Len(names), d), total)
            /\ SumRat(NormWeights(items, TotalWeight(items))) = RatOne

C9_Witness ==
    /\ pc = "done"
    /\ Len(PresentNames) = 3
    /\ \E d \in 1..Dim : vec[d][2] # 1
    /\ Len(result) >= 1

\* C10: with exactly one qualifying component the query vector is that
\* component's raw embedding, whatever its table weight.
C10_SingleComponentIsRaw ==
    (Embedded /\ Len(PresentNames) = 1) =>
        /\ embed_calls = <<(<<TextOf(PresentNames[1])>>)>>
        /\ vec = AsFloats(Embed(TextOf(PresentNames[1])))

C10_Witness ==
    /\ pc = "done"
    /\ PresentNames = <<"medications">>
    /\ vec = AsFloats(Embed(sMedsLabel \o sM1))
    /\ \E d \in 1..Dim : vec[d] # RatZero

Contains(text, frag) ==
    \E k \in 0..(Len(text) - Len(frag)) : SubSeq(text, k + 1, k + Len(frag)) = frag

sAgeLabel == <<"a","g","e",":">>
sSexLabel == <<"s","e","x",":">>
sComorbiditiesLabel == <<"c","o","m","o","r","b","i","d","i","t","i","e","s",":">>
sLocationLabel == <<"l","o","c","a","t","i","o","n",":">>

\* C12 (as claimed): the string build_query_text returns holds one labelled
\* fragment for every populated field of the Spec: "age:<n>", "sex:<lower-cased
\* sex>", "conditions:<items>", "meds:<items joined by ', '>",
\* "comorbidities:<items>", "context:<items>" and
\* "location:<city> <state> <country>".
C12_EveryPopulatedFieldRendered ==
    pc = "composed" =>
        /\ spec.age.t = "int" =>
              Contains(query_text, sAgeLabel \o IntStr(spec.age.v))
        /\ spec.sex.t = "str" =>
              Contains(query_text, sSexLabel \o Lower(spec.sex.s))
        /\ spec.conditions.items # <<>> =>
              Contains(query_text, sConditionsLabel \o Join(sCommaSpace, spec.conditions.items))
        /\ spec.medications.items # <<>> =>
              Contains(query_text, sMedsLabel \o Join(sCommaSpace, spec.medications.items))
        /\ spec.comorbidities.items # <<>> =>
              Contains(query_text, sComorbiditiesLabel \o Join(sCommaSpace, spec.comorbidities.items))
        /\ spec.extra_terms.items # <<>> =>
              Contains(query_text, sContextLabel \o Join(sCommaSpace, spec.extra_terms.items))
        /\ spec.location.t = "dict" =>
              Contains(query_text,
                       sLocationLabel \o Join(sSpace, <<spec.location.city.s,
                                                        spec.location.state.s,
                                                        spec.location.country.s>>))

\* C13 (as claimed): parse returns the object the language model produced:
\* every key of that object is in the returned dict with the same value, and
\* no key is added, dropped or overwritten.
C13_ParseReturnsModelObject ==
    (pc = "parsed" /\ llm_content.kind \in {"json", "wrapped"}) =>
        \A k \in ObjectKeys : parsed[k] = llm_content.data[k]

\* the number of characters before fragment i of the joined string
RECURSIVE FragmentOffset(_, _)
FragmentOffset(texts, i) ==
    IF i = 1 THEN 0 ELSE FragmentOffset(texts, i - 1) + Len(texts[i - 1]) + 1

SourceHits(bundle) ==
    {i \in DOMAIN result :
        /\ result[i].payload.nct_id = Str(bundle.nct)
        /\ \A k \in DOMAIN result :
              (k > i) => result[k].payload.nct_id # Str(bundle.nct)}

\* the evidence items of a list that carry a criterion text
RealItems(items) == SelectSeq(items, LAMBDA e : e.payload.text # None)

\* items holds, in list order, one item for each non-empty string of entries
\* and nothing else, each with the entry's text and the id of its position
OneItemPerEntry(nct, infix, entries, items) ==
    /\ \A i \in 0..(Len(entries) - 1) :
          IF Truthy(entries[i + 1])
          THEN \E k \in DOMAIN items :
                  /\ items[k].payload.chunk_id = nct \o infix \o IntStr(i)
                  /\ items[k].payload.text = entries[i + 1]
                  /\ \A k2 \in DOMAIN items :
                        items[k2].payload.chunk_id = items[k].payload.chunk_id => k2 = k
          ELSE \A k \in DOMAIN items :
                  items[k].payload.chunk_id # nct \o infix \o IntStr(i)
    /\ \A k \in DOMAIN items :
          \E i \in 0..(Len(entries) - 1) :
              /\ items[k].payload.chunk_id = nct \o infix \o IntStr(i)
              /\ \A k2 \in DOMAIN items, i2 \in 0..(Len(entries) - 1) :
                    (k2 > k /\ items[k2].payload.chunk_id = nct \o infix \o IntStr(i2))
                        => i2 > i

\* C15: for every retrieved trial the bundle holds one inclusion item per
\* non-empty string of inclusion_criteria and one exclusion item per
\* non-empty string of exclusion_criteria, in list order, each with the
\* criterion's text and the id "<nct_id>:eligibility_inclusion:<index>" or
\* "<nct_id>:eligibility_exclusion:<index>" of its position in the payload
\* list; empty and null entries give no item.
C15_OneItemPerCriterion ==
    pc = "returned" =>
        \A j \in DOMAIN grouped :
            \A i \in SourceHits(grouped[j]) :
                /\ OneItemPerEntry(grouped[j].nct, sInclusionInfix,
                                   CriteriaOf(result[i].payload.inclusion_criteria),
                                   RealItems(grouped[j].incl))
                /\ OneItemPerEntry(grouped[j].nct, sExclusionInfix,
                                   CriteriaOf(result[i].payload.exclusion_criteria),
                                   grouped[j].excl)

C15_Witness ==
    /\ pc = "returned"
    /\ \E j \in DOMAIN grouped :
          /\ grouped[j].nct = sN1
          /\ Len(grouped[j].incl) = 2
          /\ grouped[j].incl[2].payload.chunk_id = sN1 \o sInclusionInfix \o <<"3">>
          /\ grouped[j].incl[2].payload.text = Str(sC2)
          /\ Len(grouped[j].excl) = 1

\* the list holds no non-empty string
NoEvidenceIn(entries) == \A i \in DOMAIN entries : ~Truthy(entries[i])

\* C16: every bundle retrieve_with_exclusions returns has at least one
\* evidence item.  A trial whose inclusion and exclusion lists are empty,
\* null or hold only empty entries gets exactly one item, under incl, with
\* null text and the id "<nct_id>:metadata", and an empty excl; a trial with
\* any real evidence item gets no such placeholder.
C16_EvidenceCompleteness ==
    pc = "returned" =>
        \A j \in DOMAIN grouped :
            \A i \in SourceHits(grouped[j]) :
                LET b == grouped[j]
                    all == b.incl \o b.excl
                    bare == /\ NoEvidenceIn(CriteriaOf(result[i].payload.inclusion_criteria))
                            /\ NoEvidenceIn(CriteriaOf(result[i].payload.exclusion_criteria))
                IN  /\ Len(all) >= 1
                    /\ bare =>
                          /\ Len(b.incl) = 1
                          /\ b.incl[1].payload.text = None
                          /\ b.incl[1].payload.chunk_id = b.nct \o sMetadataSuffix
                          /\ b.excl = <<>>
                    /\ ~bare =>
                          \A k \in DOMAIN all :
                              /\ all[k].payload.text # None
                              /\ all[k].payload.chunk_id # b.nct \o sMetadataSuffix

C16_Witness ==
    /\ pc = "returned"
    /\ \E j, k \in DOMAIN grouped :
          /\ grouped[j].nct = sN2
          /\ Len(grouped[j].incl) = 1
          /\ grouped[j].incl[1].payload.chunk_id = sN2 \o sMetadataSuffix
          /\ grouped[j].excl = <<>>
          /\ grouped[k].excl # <<>>

\* the rank of the first returned hit with the given nct_id
FirstHit(nct) ==
    CHOOSE i \in DOMAIN result :
        /\ result[i].payload.nct_id = Str(nct)
        /\ \A k \in DOMAIN result : (k < i) => result[k].payload.nct_id # Str(nct)

\* C17: the mapping retrieve_with_exclusions returns has one bundle per
\* distinct non-empty nct_id among the post-filtered hits, in the rank order
\* of the hits; a hit whose payload is missing or has a null or empty nct_id
\* is skipped without an error and without changing the other bundles, and
\* the number of bundles never exceeds max_trials.
C17_OneBundlePerNctInRankOrder ==
    /\ pc = "returned" =>
          /\ \A i \in DOMAIN result :
                Truthy(result[i].payload.nct_id) =>
                    \E j \in DOMAIN grouped : grouped[j].nct = result[i].payload.nct_id.s
          /\ \A j \in DOMAIN grouped :
                /\ grouped[j].nct # <<>>
                /\ SourceHits(grouped[j]) # {}
          /\ \A j, k \in DOMAIN grouped :
                /\ j # k => grouped[j].nct # grouped[k].nct
                /\ j < k => FirstHit(grouped[j].nct) < FirstHit(grouped[k].nct)
          /\ grouped = GroupHits(SelectSeq(result, LAMBDA h : Truthy(h.payload.nct_id)), <<>>)
          /\ Len(grouped) <= max_trials
    /\ pc = "raised" => ~QuerySpecValid(spec)

C17_Witness ==
    /\ pc = "returned"
    /\ \E i \in DOMAIN result : ~Truthy(result[i].payload.nct_id)
    /\ Len(grouped) = 2
    /\ Len(result) = 3

\* the location entries of the scanned collection, trimmed and lower-cased
LocationEntries ==
    UNION {{[country |-> Lower(Strip(OrEmpty(l.country))),
             state |-> Lower(Strip(OrEmpty(l.state))),
             city |-> Lower(Strip(OrEmpty(l.city)))]
            : l \in {x \in Elems(CriteriaOf(index[i].payload.locations)) : x.t = "dict"}}
           : i \in DOMAIN index}

\* C18: after the scan, countries holds every non-empty country of the
\* location entries; states_by_country[country] holds a state iff some entry
\* has that country and that state; cities_by_region[(country, state)] holds
\* a city iff some entry has that country, state and city; and
\* cities_by_region[(country, "")] holds a city iff some entry has that
\* country and city and no state; all values trimmed and lower-cased.  For
\* the points {usa, ma, boston}, {usa, ny}, {ca, toronto} this gives
\* countries {usa, ca}, states {ma, ny} under usa, boston under (usa, ma)
\* and toronto under (ca, "").
C18_FacetsAccumulate ==
    pc \in {"sort", "facets"} =>
        /\ countries = {e.country : e \in {x \in LocationEntries : x.country # <<>>}}
        /\ \A e \in LocationEntries :
              (e.country # <<>> /\ e.state # <<>>) =>
                  /\ e.country \in DOMAIN states_by_country
                  /\ e.state \in states_by_country[e.country]
        /\ \A c \in DOMAIN states_by_country : \A st \in states_by_country[c] :
              \E e \in LocationEntries : e.country = c /\ e.state = st /\ c # <<>> /\ st # <<>>
        /\ \A e \in LocationEntries :
              (e.country # <<>> /\ e.city # <<>>) =>
                  /\ <<e.country, e.state>> \in DOMAIN cities_by_region
                  /\ e.city \in cities_by_region[<<e.country, e.state>>]
        /\ \A k \in DOMAIN cities_by_region : \A city \in cities_by_region[k] :
              \E e \in LocationEntries :
                  /\ e.country = k[1] /\ e.state = k[2] /\ e.city = city
                  /\ k[1] # <<>> /\ city # <<>>
        /\ pc = "facets" =>
              /\ Elems(facets.countries) = countries
              /\ DOMAIN facets.states_by_country = DOMAIN states_by_country
              /\ DOMAIN facets.cities_by_region = DOMAIN cities_by_region
        /\ index = FacetsExample =>
              /\ countries = {sUsa, sCa}
              /\ states_by_country = (sUsa :> {sMa, sNy})
              /\ cities_by_region = (<<sUsa, sMa>> :> {sBoston}) @@ (<<sCa, <<>> >> :> {sTor})

C18_Witness ==
    /\ pc = "facets"
    /\ index = FacetsExample
    /\ facets.countries = <<sCa, sUsa>>
    /\ facets.cities_by_region[<<sCa, <<>> >>] = <<sTor>>

\* every request but the first passes the cursor the page before it returned
CursorChain ==
    /\ scrolls # <<>> => scrolls[1] = OffsetNone
    /\ \A k \in 2..Len(scrolls) :
          /\ scrolls[k] = Scroll(index, scrolls[k - 1], limit_per_scroll).next_page_offset
          /\ scrolls[k].t = "id"
          /\ scrolls[k - 1].t = "id" => scrolls[k - 1].id < scrolls[k].id

\* C19: the paginated scan of get_location_facets terminates on every finite
\* collection: each scroll request passes the cursor returned by the page
\* before it (null for the first), the loop stops when the cursor is
\* exhausted, and by then every point of the collection has been processed
\* exactly once, no page skipped or read again.
C19_ScanTerminates ==
    /\ [](pc \in {"scroll", "sort", "facets"} => CursorChain)
    /\ [](pc \in {"sort", "facets"} =>
            /\ next_offset = OffsetNone
            /\ scanned = [i \in 1..Len(index) |-> i])
    /\ (pc = "scroll") ~> (pc = "facets")

C19_Witness ==
    /\ pc = "facets"
    /\ Len(index) = 3
    /\ limit_per_scroll = 1
    /\ scrolls = <<OffsetNone, OffsetId(2), OffsetId(3)>>
    /\ scanned = <<1, 2, 3>>

\* C20 (as claimed): a Spec whose age is present but not an integer is
\* rejected before any filter is built and before any embedding or index
\* call is made: the call never gets past its entry other than by raising,
\* and the age constraint is never dropped.
C20_NonIntegerAgeRejected ==
    spec.age.t \notin {"none", "int"} =>
        /\ pc \in {"idle", "build_filters", "raised"}
        /\ embed_calls = <<>>
        /\ searches = <<>>

-----------------------------------------------------------------------------
(* C21: retrieve_with_exclusions accepts a Spec whose every field is empty *)
(* or null (age, sex and location null; conditions, medications and        *)
(* extra_terms each an empty list, null or missing): no error is raised,   *)
(* no filter is built, the fallback text " " is embedded, the post-filter  *)
(* removes nothing and the bundles of the unfiltered top max_trials hits   *)
(* are returned.                                                           *)
EmptyList(l) == l \in {ListAbsent, ListNone, List(<<>>)}

AllEmpty(s) ==
    /\ s.age = AgeNone
    /\ s.sex = None
    /\ s.location = LocNone
    /\ EmptyList(s.conditions)
    /\ EmptyList(s.medications)
    /\ EmptyList(s.extra_terms)

C21_AllEmptySpecAccepted ==
    (pc # "idle" /\ AllEmpty(spec)) =>
        /\ pc # "raised"
        /\ Built => qfilter = NoFilter
        /\ Embedded => embed_calls = <<(<<sSpace>>)>>
        /\ pc \in {"done", "returned"} =>
              /\ result = hits
              /\ hits = Take(Ranked(vec, index), max_trials)
        /\ pc = "returned" => grouped = GroupHits(Take(Ranked(vec, index), max_trials), <<>>)

-----------------------------------------------------------------------------
(* C27: whenever _weighted_query_vector reaches its fallback, the joined   *)
(* query string is empty and the text embedded is the single space; for    *)
(* every Spec the components build_query_components returns are exactly    *)
(* the qualifying ones, and a non-empty item list always has a positive    *)
(* total weight (the second fallback branch is never taken).               *)
C27_FallbackOnlyOnEmptyQuery ==
    (pc # "idle" /\ QuerySpecValid(spec)) =>
        LET parts == build_query_components(spec)
            items == QualifyingItems(parts)
        IN  /\ [i \in DOMAIN items |-> Part(items[i].name, items[i].text)] = parts
            /\ items # <<>> => ~RatLeq(TotalWeight(items), RatZero)
            /\ (Embedded /\ items = <<>>) =>
                  /\ parts = <<>>
                  /\ build_query_text(spec) = <<>>
                  /\ embed_calls = <<(<<sSpace>>)>>
            /\ (Embedded /\ items # <<>>) =>
                  embed_calls = <<[i \in DOMAIN parts |-> parts[i].text]>>

C27_Witness ==
    /\ pc = "search"
    /\ QuerySpecValid(spec)
    /\ build_query_components(spec) = <<>>
    /\ build_query_text(spec) = <<>>
    /\ embed_calls = <<(<<sSpace>>)>>

-----------------------------------------------------------------------------
\* the chunk_ids of every evidence item of the mapping, bundle after bundle
RECURSIVE EvidenceIds(_)
EvidenceIds(g) ==
    IF g = <<>> THEN <<>>
    ELSE LET all == Head(g).incl \o Head(g).excl
         IN  [k \in DOMAIN all |-> all[k].payload.chunk_id] \o EvidenceIds(Tail(g))

\* every item's id ends in the position its text has in the payload list
IdsArePositions(nct, infix, entries, items) ==
    \A k \in DOMAIN items :
        \E i \in 0..(Len(entries) - 1) :
            /\ items[k].payload.chunk_id = ChunkId(nct, infix, i)
            /\ entries[i + 1] = items[k].payload.text
            /\ Cardinality({i2 \in 0..i : Truthy(entries[i2 + 1])}) = k

(* C28: within one call of retrieve_with_exclusions no two evidence items  *)
(* of the returned mapping carry the same chunk_id, within a bundle or     *)
(* across bundles, and the index in an id is the criterion's position in   *)
(* the payload's original list, empty and null entries counted, so the     *)
(* k-th item kept may carry an index greater than k - 1.                   *)
C28_ChunkIdsUniqueAndPositional ==
    pc = "returned" =>
        LET ids == EvidenceIds(grouped)
        IN  /\ \A a, b \in DOMAIN ids : ids[a] = ids[b] => a = b
            /\ \A j, j2 \in DOMAIN grouped : grouped[j].nct = grouped[j2].nct => j = j2
            /\ \A j \in DOMAIN grouped :
                  \A i \in SourceHits(grouped[j]) :
                      /\ IdsArePositions(grouped[j].nct, sInclusionInfix,
                                         CriteriaOf(result[i].payload.inclusion_criteria),
                                         RealItems(grouped[j].incl))
                      /\ IdsArePositions(grouped[j].nct, sExclusionInfix,
                                         CriteriaOf(result[i].payload.exclusion_criteria),
                                         grouped[j].excl)

C28_Witness ==
    /\ pc = "returned"
    /\ Len(grouped) >= 2
    /\ Len(EvidenceIds(grouped)) >= 4
    /\ \E j \in DOMAIN grouped :
          /\ Len(grouped[j].incl) = 2
          /\ grouped[j].incl[1].payload.chunk_id = grouped[j].nct \o sInclusionInfix \o <<"0">>
          /\ grouped[j].incl[2].payload.chunk_id = grouped[j].nct \o sInclusionInfix \o <<"3">>
    /\ \E j \in DOMAIN grouped :
          /\ grouped[j].excl # <<>>
          /\ grouped[j].excl[1].payload.chunk_id = grouped[j].nct \o sExclusionInfix \o <<"1">>

-----------------------------------------------------------------------------
(* C25: for the Spec {age 30, sex FEMALE, conditions [breast cancer],      *)
(* location country usa} and an index holding one matching trial (gender   *)
(* ALL, min_age 18, max_age null, location_countries [usa]) and one MALE   *)
(* trial, retrieve_with_exclusions returns exactly the matching trial's    *)
(* bundle; the MALE trial fails the filter the search is issued with and   *)
(* is never among the hits handed to the post-filter, which runs only      *)
(* after the search has answered.                                          *)
C25_EndToEndExample ==
    (index = ExampleIndex /\ spec = ExampleSpec) =>
        /\ pc # "raised"
        /\ pc \in {"build_filters", "query_vector", "search"} =>
              hits = <<>> /\ result = <<>> /\ grouped = <<>>
        /\ Built =>
              /\ Len(qfilter.must) = 3
              /\ ~FilterMatches(qfilter, ExampleMale.payload)
              /\ FilterMatches(qfilter, ExampleMatch.payload)
        /\ pc = "postfilter" =>
              /\ Len(searches) = 1
              /\ searches[1].query_filter = qfilter
              /\ result = <<>>
        /\ pc \in {"postfilter", "done", "returned"} =>
              /\ hits = <<ExampleMatch>>
              /\ \A i \in DOMAIN hits : hits[i] # ExampleMale
        /\ pc \in {"done", "returned"} => result = <<ExampleMatch>>
        /\ pc = "returned" =>
              /\ Len(grouped) = 1
              /\ grouped[1] = Bundle(ExampleMatch.payload)
              /\ grouped[1].nct = sN1

C25_Witness ==
    /\ index = ExampleIndex
    /\ spec = ExampleSpec
    /\ max_trials >= 2
    /\ pc = "returned"
    /\ Len(grouped) = 1
    /\ grouped[1].nct = sN1
    /\ RatLeq(Score(vec, ExampleMatch), Score(vec, ExampleMale))

-----------------------------------------------------------------------------
\* the list is in strictly ascending order: sorted, and no value twice
Ascending(list) ==
    \A i, j \in DOMAIN list : i < j => (list[i] # list[j] /\ StrLeq(list[i], list[j]))

\* the list holds lower-case, non-empty strings only
CleanValues(list) ==
    \A i \in DOMAIN list : list[i] # <<>> /\ Lower(list[i]) = list[i]

(* C26: in the facets get_location_facets returns, the countries list and  *)
(* every list of states_by_country and cities_by_region is in ascending    *)
(* order without duplicates and without the empty string, every key and    *)
(* value is lower-case, and the structure is a function of the set of      *)
(* location entries of the scanned points, whatever their storage order.   *)
C26_FacetsSortedAndCanonical ==
    pc = "facets" =>
        LET named == {e \in LocationEntries : e.country # <<>>}
        IN  /\ Ascending(facets.countries)
            /\ CleanValues(facets.countries)
            /\ Elems(facets.countries) = {e.country : e \in named}
            /\ DOMAIN facets.states_by_country =
                  {e.country : e \in {x \in named : x.state # <<>>}}
            /\ \A c \in DOMAIN facets.states_by_country :
                  /\ Lower(c) = c
                  /\ Ascending(facets.states_by_country[c])
                  /\ CleanValues(facets.states_by_country[c])
                  /\ Elems(facets.states_by_country[c]) =
                        {e.state : e \in {x \in named : x.country = c /\ x.state # <<>>}}
            /\ DOMAIN facets.cities_by_region =
                  {<<e.country, e.state>> : e \in {x \in named : x.city # <<>>}}
            /\ \A k \in DOMAIN facets.cities_by_region :
                  /\ Lower(k[1]) = k[1]
                  /\ Lower(k[2]) = k[2]
                  /\ Ascending(facets.cities_by_region[k])
                  /\ CleanValues(facets.cities_by_region[k])
                  /\ Elems(facets.cities_by_region[k]) =
                        {e.city : e \in {x \in named : /\ x.country = k[1]
                                                       /\ x.state = k[2]
                                                       /\ x.city # <<>>}}

C26_Witness ==
    /\ pc = "facets"
    /\ index = <<FacetPoint3, FacetPoint2, FacetPoint1>>
    /\ facets.countries = <<sCa, sUsa>>
    /\ facets.states_by_country[sUsa] = <<sMa, sNy>>
    /\ facets.cities_by_region[<<sUsa, sMa>>] = <<sBoston>>

-----------------------------------------------------------------------------
(* C22: when the embedding call or the index search fails during           *)
(* retrieve_with_exclusions, the call ends by raising that very exception: *)
(* no call is issued twice, the search request carries the filter          *)
(* build_filters made, nothing is returned in place of the failure, and a  *)
(* returned mapping is the grouping of the post-filtered hits of a call    *)
(* without failure, empty only when no hit with an nct_id survived.        *)
C22_FailureSurfacesUnmodified ==
    /\ Len(embed_calls) <= 1
    /\ Len(searches) <= 1
    /\ fault # NoError =>
          /\ pc = "raised"
          /\ error = fault
          /\ hits = <<>> /\ result = <<>> /\ grouped = <<>>
    /\ searches # <<>> => searches[1].query_filter = build_filters(spec)
    /\ pc = "returned" =>
          /\ fault = NoError /\ error = NoError
          /\ Len(embed_calls) = 1 /\ Len(searches) = 1
          /\ hits = Search(index, vec, build_filters(spec), max_trials)
          /\ result = Take(_postfilter_by_max_age(spec, hits), max_trials)
          /\ grouped = <<>> <=>
                \A i \in DOMAIN result : ~Truthy(result[i].payload.nct_id)
    /\ grouped # <<>> => pc = "returned"

C22_Witness ==
    /\ pc = "raised"
    /\ fault = "timeout"
    /\ error = "timeout"
    /\ Len(embed_calls) = 1
    /\ Len(searches) = 1
    /\ qfilter # NoFilter
    /\ grouped = <<>>

-----------------------------------------------------------------------------
\* positions inside a retrieve_with_exclusions call
RetrievalPcs ==
    {"build_filters", "query_vector", "search", "postfilter", "done", "returned", "raised"}

(* C24 (as claimed): across any sequence of get_location_facets and        *)
(* retrieve_with_exclusions calls in one process no retrieval call issues  *)
(* a scroll, and once a scan has completed, no later get_location_facets   *)
(* call with the same argument scans again: it returns the memoized        *)
(* facets.                                                                 *)
C24_NeverScansSameArgumentAgain ==
    /\ pc \in RetrievalPcs => (scrolls = <<>> /\ scanned = <<>>)
    /\ pc = "scroll" => limit_per_scroll \notin completed_scans
    /\ pc = "memoized" =>
          /\ limit_per_scroll \in completed_scans
          /\ scrolls = <<>>
          /\ facets = facets_cache.value

(* C24 (amended): no retrieval call issues a scroll; the cache holds one   *)
(* entry, that of the most recent completed scan.  A get_location_facets   *)
(* call whose argument is that entry's returns the stored facets without   *)
(* a scroll; a call with any other argument scans, and its result takes    *)
(* the entry's place, so the argument it displaced is scanned again when   *)
(* it is next asked for.  A failed scan stores nothing.                    *)
C24_MemoizedWhileEntryKept ==
    /\ pc \in RetrievalPcs => (scrolls = <<>> /\ scanned = <<>>)
    /\ (facets_cache.t = "entry") <=> (completed_scans # {})
    /\ facets_cache.t = "entry" =>
          /\ facets_cache.key \in completed_scans
          /\ facets_cache.value.countries =
                Sorted({e.country : e \in {x \in LocationEntries : x.country # <<>>}})
    /\ pc \in {"scroll", "sort", "facets", "scan_failed"} =>
          ~(facets_cache.t = "entry" /\ facets_cache.key = limit_per_scroll)
    /\ pc = "memoized" =>
          /\ facets_cache.t = "entry"
          /\ facets_cache.key = limit_per_scroll
          /\ facets = facets_cache.value
          /\ scrolls = <<>> /\ scanned = <<>>
    /\ pc = "stored" => facets_cache = Entry(limit_per_scroll, facets)

C24_Witness ==
    /\ pc = "memoized"
    /\ index = FacetsExample
    /\ completed_scans = 1..MaxLimit
    /\ facets.countries = <<sCa, sUsa>>
    /\ scrolls = <<>>

-----------------------------------------------------------------------------
(* C23: the index-client handle and the embedding-model handle are         *)
(* process-wide singletons: under every interleaving of concurrent         *)
(* queries, first uses at the same time included, each handle is           *)
(* constructed at most once and all queries hold the same object.          *)
C23_HandlesAreSingletons ==
    /\ \A k \in HandleKinds : built[k] <= 1
    /\ \A a, b \in DOMAIN queries :
          /\ (queries[a].client # NoHandle /\ queries[b].client # NoHandle)
                => queries[a].client = queries[b].client
          /\ (queries[a].embedder # NoHandle /\ queries[b].embedder # NoHandle)
                => queries[a].embedder = queries[b].embedder

-----------------------------------------------------------------------------
(* C29: for any text the language model returns, judge_grouped and         *)
(* judge_from_text return normally, with a list in which every verdict's   *)
(* eligibility is "INELIGIBLE" or "POSSIBLY ELIGIBLE": "INELIGIBLE" only    *)
(* when the model's value is INELIGIBLE after trimming and upper-casing,   *)
(* "POSSIBLY ELIGIBLE" for a missing, null or other value; an answer that  *)
(* holds no JSON array gives the empty list, and elements that are not     *)
(* objects do not make the call raise.                                     *)
C29_JudgeReturnsNormalizedVerdicts ==
    /\ pc # "judge_raised"
    /\ pc = "judged" =>
          /\ Len(judge_data) = Len(judge_parsed)
          /\ \A i \in DOMAIN judge_data :
                /\ judge_data[i].eligibility \in {Str(sINELIGIBLE), Str(sPossiblyEligible)}
                /\ judge_data[i].eligibility = Str(sINELIGIBLE) <=>
                      /\ judge_parsed[i].eligibility.t = "str"
                      /\ Upper(Strip(judge_parsed[i].eligibility.s)) = sINELIGIBLE
          /\ ContentOf(judge_content).body.t # "array" => judge_data = <<>>

-----------------------------------------------------------------------------
\* the points due for the first k records of the source: one per record at
\* or after the resume offset that has an nct_id, in source order
RECURSIVE DuePoints(_)
DuePoints(k) ==
    IF k = 0 THEN <<>>
    ELSE IF k > resume_from /\ Truthy(trial_source[k].nct_id)
         THEN Append(DuePoints(k - 1),
                     [id |-> Uuid5(trial_source[k].nct_id.s),
                      text |-> Strip(trial_source[k].trial_title),
                      payload |-> [nct_id |-> trial_source[k].nct_id.s,
                                   trial_title |-> trial_source[k].trial_title]])
         ELSE DuePoints(k - 1)

(* C30: in the ingest upsert loop the buffers texts, ids and metadata have *)
(* equal length and position i of each describes the same trial; the       *)
(* buffer is flushed whenever it reaches batch_size and once more when the *)
(* source is exhausted, and a successful flush empties the three buffers;  *)
(* on normal completion every record at or after the resume offset that    *)
(* has an nct_id has been uploaded exactly once, under the id derived from *)
(* its nct_id, and no other record has been uploaded.                      *)
C30_IngestUploadsEachRecordOnce ==
    /\ Len(texts_buf) = Len(ids_buf)
    /\ Len(ids_buf) = Len(metadata_buf)
    /\ \A i \in DOMAIN metadata_buf :
          /\ ids_buf[i] = Uuid5(metadata_buf[i].nct_id)
          /\ texts_buf[i] = Strip(metadata_buf[i].trial_title)
    /\ pc = "ingest_loop" =>
          /\ Len(texts_buf) < batch_size
          /\ uploaded \o Zipped(texts_buf, ids_buf, metadata_buf) = DuePoints(consumed)
    /\ pc = "ingest_done" =>
          /\ texts_buf = <<>> /\ ids_buf = <<>> /\ metadata_buf = <<>>
          /\ consumed = Len(trial_source)
          /\ uploaded = DuePoints(Len(trial_source))
          /\ \A k \in DOMAIN trial_source :
                Cardinality({u \in DOMAIN uploaded :
                                /\ uploaded[u].payload.trial_title = trial_source[k].trial_title
                                /\ Str(uploaded[u].payload.nct_id) = trial_source[k].nct_id})
                    = IF k > resume_from /\ Truthy(trial_source[k].nct_id) THEN 1 ELSE 0

C30_Witness ==
    /\ pc = "ingest_done"
    /\ Len(trial_source) = 3
    /\ resume_from = 1
    /\ batch_size = 2
    /\ Truthy(trial_source[1].nct_id)
    /\ ~Truthy(trial_source[2].nct_id)
    /\ Len(uploaded) = 1
    /\ uploaded[1].id = Uuid5(trial_source[3].nct_id.s)

====
